---- MODULE Spec2Model ----
(***************************************************************************)
(* A model of knd's zone catalog (src/src/zone.c), the look-up tables and  *)
(* reverse_lut (src/src/kndsrv.c), the zone loader (src/src/save.c) and    *)
(* the zone commands of the server (src/src/kndsrv.c).                     *)
(*                                                                         *)
(* C ints are modelled by TLA+ integers.  The 64-bit intermediate values   *)
(* of xworld and xscreen are computed in limbs so that no intermediate     *)
(* value leaves the 32-bit range of the model checker; the results are the *)
(* ones the C expressions give.                                            *)
(***************************************************************************)
EXTENDS Integers, Sequences, FiniteSets, TLC

(***************************************************************************)
(* Program constants.                                                      *)
(***************************************************************************)
FREENECT_FRAME_W == 640
FREENECT_FRAME_H == 480
FREENECT_FRAME_PIX == 307200
PXZMAX == 1092
ZONE_NAME_LENGTH == 128

\* enum of struct zone's occupied_param (knd.h)
ZONE_POP == 0
ZONE_SA == 1
ZONE_BRIGHT == 2
ZONE_XC == 3
ZONE_YC == 4
ZONE_ZC == 5

\* param_ranges[] of zone.c, indexed by the enum value + 1
param_ranges == <<
    [name |-> "pop",    min |-> 0, max |-> FREENECT_FRAME_PIX,       def_rising |-> 160,  def_falling |-> 140],
    [name |-> "sa",     min |-> 0, max |-> FREENECT_FRAME_PIX * 150, def_rising |-> 3000, def_falling |-> 1000],
    [name |-> "bright", min |-> 0, max |-> 1000,                     def_rising |-> 350,  def_falling |-> 150],
    [name |-> "xc",     min |-> 0, max |-> 1000,                     def_rising |-> 600,  def_falling |-> 400],
    [name |-> "yc",     min |-> 0, max |-> 1000,                     def_rising |-> 600,  def_falling |-> 400],
    [name |-> "zc",     min |-> 0, max |-> 1000,                     def_rising |-> 600,  def_falling |-> 400] >>

\* range of a zone's current parameter: &param_ranges[zone->occupied_param]
ParamRange(param) == param_ranges[param + 1]

\* The table init_lut() fills: depth_lut[i] = (int)(1000.0f * 0.1236f *
\* tanf(i / 2842.5f + 1.1863f)) for i = 0 .. 2047, in single precision.
depth_lut_table == <<
    305, 305, 306, 306, 306, 307, 307, 307, 307, 308, 308, 308, 309, 309, 309, 310,
    310, 310, 311, 311, 311, 312, 312, 312, 313, 313, 313, 314, 314, 314, 314, 315,
    315, 315, 316, 316, 316, 317, 317, 317, 318, 318, 318, 319, 319, 319, 320, 320,
    320, 321, 321, 321, 322, 322, 322, 323, 323, 323, 324, 324, 325, 325, 325, 326,
    326, 326, 327, 327, 327, 328, 328, 328, 329, 329, 329, 330, 330, 330, 331, 331,
    332, 332, 332, 333, 333, 333, 334, 334, 334, 335, 335, 336, 336, 336, 337, 337,
    337, 338, 338, 338, 339, 339, 340, 340, 340, 341, 341, 341, 342, 342, 343, 343,
    343, 344, 344, 344, 345, 345, 346, 346, 346, 347, 347, 348, 348, 348, 349, 349,
    350, 350, 350, 351, 351, 351, 352, 352, 353, 353, 353, 354, 354, 355, 355, 355,
    356, 356, 357, 357, 358, 358, 358, 359, 359, 360, 360, 360, 361, 361, 362, 362,
    362, 363, 363, 364, 364, 365, 365, 365, 366, 366, 367, 367, 368, 368, 368, 369,
    369, 370, 370, 371, 371, 371, 372, 372, 373, 373, 374, 374, 375, 375, 375, 376,
    376, 377, 377, 378, 378, 379, 379, 379, 380, 380, 381, 381, 382, 382, 383, 383,
    384, 384, 385, 385, 385, 386, 386, 387, 387, 388, 388, 389, 389, 390, 390, 391,
    391, 392, 392, 393, 393, 394, 394, 395, 395, 396, 396, 397, 397, 397, 398, 398,
    399, 399, 400, 400, 401, 401, 402, 402, 403, 404, 404, 405, 405, 406, 406, 407,
    407, 408, 408, 409, 409, 410, 410, 411, 411, 412, 412, 413, 413, 414, 414, 415,
    416, 416, 417, 417, 418, 418, 419, 419, 420, 420, 421, 421, 422, 423, 423, 424,
    424, 425, 425, 426, 426, 427, 428, 428, 429, 429, 430, 430, 431, 432, 432, 433,
    433, 434, 434, 435, 436, 436, 437, 437, 438, 439, 439, 440, 440, 441, 442, 442,
    443, 443, 444, 445, 445, 446, 446, 447, 448, 448, 449, 450, 450, 451, 451, 452,
    453, 453, 454, 455, 455, 456, 456, 457, 458, 458, 459, 460, 460, 461, 462, 462,
    463, 464, 464, 465, 466, 466, 467, 468, 468, 469, 470, 470, 471, 472, 472, 473,
    474, 474, 475, 476, 476, 477, 478, 478, 479, 480, 481, 481, 482, 483, 483, 484,
    485, 485, 486, 487, 488, 488, 489, 490, 491, 491, 492, 493, 493, 494, 495, 496,
    496, 497, 498, 499, 499, 500, 501, 502, 502, 503, 504, 505, 506, 506, 507, 508,
    509, 509, 510, 511, 512, 513, 513, 514, 515, 516, 517, 517, 518, 519, 520, 521,
    521, 522, 523, 524, 525, 526, 526, 527, 528, 529, 530, 531, 531, 532, 533, 534,
    535, 536, 537, 537, 538, 539, 540, 541, 542, 543, 544, 544, 545, 546, 547, 548,
    549, 550, 551, 552, 553, 554, 554, 555, 556, 557, 558, 559, 560, 561, 562, 563,
    564, 565, 566, 567, 568, 569, 570, 571, 571, 572, 573, 574, 575, 576, 577, 578,
    579, 580, 581, 582, 583, 584, 585, 586, 588, 589, 590, 591, 592, 593, 594, 595,
    596, 597, 598, 599, 600, 601, 602, 603, 604, 605, 607, 608, 609, 610, 611, 612,
    613, 614, 615, 617, 618, 619, 620, 621, 622, 623, 625, 626, 627, 628, 629, 630,
    632, 633, 634, 635, 636, 638, 639, 640, 641, 642, 644, 645, 646, 647, 649, 650,
    651, 652, 654, 655, 656, 657, 659, 660, 661, 662, 664, 665, 666, 668, 669, 670,
    672, 673, 674, 676, 677, 678, 680, 681, 682, 684, 685, 687, 688, 689, 691, 692,
    694, 695, 696, 698, 699, 701, 702, 704, 705, 707, 708, 709, 711, 712, 714, 715,
    717, 718, 720, 722, 723, 725, 726, 728, 729, 731, 732, 734, 736, 737, 739, 740,
    742, 744, 745, 747, 748, 750, 752, 753, 755, 757, 758, 760, 762, 763, 765, 767,
    769, 770, 772, 774, 776, 777, 779, 781, 783, 784, 786, 788, 790, 792, 794, 795,
    797, 799, 801, 803, 805, 807, 809, 810, 812, 814, 816, 818, 820, 822, 824, 826,
    828, 830, 832, 834, 836, 838, 840, 842, 844, 846, 849, 851, 853, 855, 857, 859,
    861, 863, 866, 868, 870, 872, 874, 877, 879, 881, 883, 886, 888, 890, 893, 895,
    897, 900, 902, 904, 907, 909, 911, 914, 916, 919, 921, 924, 926, 929, 931, 934,
    936, 939, 941, 944, 946, 949, 952, 954, 957, 960, 962, 965, 968, 970, 973, 976,
    979, 981, 984, 987, 990, 993, 996, 998, 1001, 1004, 1007, 1010, 1013, 1016, 1019, 1022,
    1025, 1028, 1031, 1034, 1037, 1040, 1044, 1047, 1050, 1053, 1056, 1060, 1063, 1066, 1069, 1073,
    1076, 1079, 1083, 1086, 1090, 1093, 1096, 1100, 1103, 1107, 1111, 1114, 1118, 1121, 1125, 1129,
    1132, 1136, 1140, 1143, 1147, 1151, 1155, 1159, 1163, 1167, 1170, 1174, 1178, 1182, 1186, 1191,
    1195, 1199, 1203, 1207, 1211, 1216, 1220, 1224, 1228, 1233, 1237, 1242, 1246, 1251, 1255, 1260,
    1264, 1269, 1273, 1278, 1283, 1288, 1292, 1297, 1302, 1307, 1312, 1317, 1322, 1327, 1332, 1337,
    1342, 1347, 1353, 1358, 1363, 1369, 1374, 1379, 1385, 1390, 1396, 1402, 1407, 1413, 1419, 1425,
    1430, 1436, 1442, 1448, 1454, 1460, 1466, 1473, 1479, 1485, 1492, 1498, 1504, 1511, 1518, 1524,
    1531, 1538, 1544, 1551, 1558, 1565, 1572, 1579, 1587, 1594, 1601, 1608, 1616, 1623, 1631, 1639,
    1646, 1654, 1662, 1670, 1678, 1686, 1694, 1703, 1711, 1719, 1728, 1736, 1745, 1754, 1763, 1772,
    1781, 1790, 1799, 1808, 1818, 1827, 1837, 1847, 1856, 1866, 1876, 1886, 1897, 1907, 1917, 1928,
    1939, 1949, 1960, 1971, 1983, 1994, 2005, 2017, 2029, 2040, 2052, 2065, 2077, 2089, 2102, 2114,
    2127, 2140, 2153, 2167, 2180, 2194, 2208, 2222, 2236, 2250, 2265, 2280, 2295, 2310, 2325, 2341,
    2356, 2372, 2389, 2405, 2422, 2438, 2455, 2473, 2490, 2508, 2526, 2545, 2563, 2582, 2601, 2621,
    2641, 2661, 2681, 2702, 2723, 2744, 2766, 2788, 2810, 2833, 2856, 2879, 2903, 2927, 2952, 2977,
    3002, 3028, 3055, 3082, 3109, 3137, 3165, 3194, 3223, 3253, 3284, 3315, 3346, 3378, 3411, 3445,
    3479, 3514, 3549, 3586, 3623, 3660, 3699, 3738, 3779, 3820, 3862, 3905, 3949, 3994, 4040, 4087,
    4135, 4184, 4235, 4286, 4339, 4394, 4450, 4507, 4565, 4625, 4687, 4751, 4816, 4883, 4952, 5023,
    5095, 5170, 5248, 5327, 5409, 5494, 5581, 5672, 5765, 5861, 5960, 6063, 6170, 6280, 6395, 6513,
    6636, 6764, 6897, 7035, 7179, 7329, 7485, 7648, 7818, 7996, 8183, 8378, 8582, 8798, 9024, 9261,
    9512, 9777, 10057, 10353, 10668, 11002, 11358, 11737, 12143, 12578, 13045, 13548, 14092, 14680, 15321, 16019,
    16785, 17627, 18558, 19593, 20751, 22053, 23530, 25219, 27170, 29448, 32142, 35378, 39339, 44300, 50691, 59238,
    71256, 89377, 119883, 181975, 377491, -5073390, -328593, -169767, -114473, -86335, -69305, -57886, -49698, -43539, -38737, -34891,
    -31738, -29109, -26882, -24971, -23314, -21863, -20582, -19443, -18423, -17505, -16674, -15919, -15229, -14596, -14014, -13476,
    -12978, -12516, -12085, -11683, -11307, -10954, -10623, -10311, -10017, -9739, -9477, -9228, -8991, -8767, -8554, -8350,
    -8156, -7971, -7794, -7625, -7463, -7308, -7159, -7016, -6878, -6746, -6619, -6497, -6379, -6265, -6155, -6049,
    -5946, -5847, -5752, -5659, -5569, -5482, -5398, -5316, -5237, -5160, -5085, -5013, -4942, -4873, -4807, -4742,
    -4679, -4617, -4557, -4499, -4442, -4386, -4332, -4279, -4228, -4177, -4128, -4080, -4033, -3988, -3943, -3899,
    -3856, -3814, -3773, -3733, -3694, -3655, -3617, -3581, -3544, -3509, -3474, -3440, -3407, -3374, -3342, -3310,
    -3279, -3249, -3219, -3190, -3161, -3133, -3105, -3078, -3051, -3025, -2999, -2973, -2948, -2924, -2900, -2876,
    -2852, -2829, -2807, -2785, -2763, -2741, -2720, -2699, -2678, -2658, -2638, -2618, -2599, -2580, -2561, -2542,
    -2524, -2506, -2488, -2470, -2453, -2436, -2419, -2403, -2386, -2370, -2354, -2338, -2323, -2308, -2293, -2278,
    -2263, -2248, -2234, -2220, -2206, -2192, -2178, -2165, -2152, -2138, -2126, -2113, -2100, -2087, -2075, -2063,
    -2051, -2039, -2027, -2015, -2004, -1992, -1981, -1970, -1959, -1948, -1937, -1927, -1916, -1906, -1895, -1885,
    -1875, -1865, -1855, -1845, -1836, -1826, -1816, -1807, -1798, -1789, -1779, -1770, -1761, -1753, -1744, -1735,
    -1727, -1718, -1710, -1701, -1693, -1685, -1677, -1669, -1661, -1653, -1645, -1638, -1630, -1622, -1615, -1607,
    -1600, -1593, -1586, -1578, -1571, -1564, -1557, -1550, -1543, -1537, -1530, -1523, -1517, -1510, -1504, -1497,
    -1491, -1484, -1478, -1472, -1466, -1459, -1453, -1447, -1441, -1435, -1430, -1424, -1418, -1412, -1406, -1401,
    -1395, -1390, -1384, -1379, -1373, -1368, -1362, -1357, -1352, -1347, -1341, -1336, -1331, -1326, -1321, -1316,
    -1311, -1306, -1301, -1296, -1292, -1287, -1282, -1277, -1273, -1268, -1264, -1259, -1254, -1250, -1245, -1241,
    -1237, -1232, -1228, -1223, -1219, -1215, -1211, -1206, -1202, -1198, -1194, -1190, -1186, -1182, -1178, -1174,
    -1170, -1166, -1162, -1158, -1154, -1151, -1147, -1143, -1139, -1135, -1132, -1128, -1124, -1121, -1117, -1114,
    -1110, -1106, -1103, -1099, -1096, -1093, -1089, -1086, -1082, -1079, -1076, -1072, -1069, -1066, -1062, -1059,
    -1056, -1053, -1050, -1046, -1043, -1040, -1037, -1034, -1031, -1028, -1025, -1022, -1019, -1016, -1013, -1010,
    -1007, -1004, -1001, -998, -995, -992, -989, -987, -984, -981, -978, -975, -973, -970, -967, -965,
    -962, -959, -957, -954, -951, -949, -946, -944, -941, -938, -936, -933, -931, -928, -926, -923,
    -921, -918, -916, -914, -911, -909, -906, -904, -902, -899, -897, -895, -892, -890, -888, -885,
    -883, -881, -879, -876, -874, -872, -870, -867, -865, -863, -861, -859, -857, -855, -852, -850,
    -848, -846, -844, -842, -840, -838, -836, -834, -832, -830, -828, -826, -824, -822, -820, -818,
    -816, -814, -812, -810, -808, -806, -804, -803, -801, -799, -797, -795, -793, -791, -790, -788,
    -786, -784, -782, -781, -779, -777, -775, -774, -772, -770, -768, -767, -765, -763, -762, -760,
    -758, -756, -755, -753, -751, -750, -748, -747, -745, -743, -742, -740, -738, -737, -735, -734,
    -732, -731, -729, -727, -726, -724, -723, -721, -720, -718, -717, -715, -714, -712, -711, -709,
    -708, -706, -705, -703, -702, -701, -699, -698, -696, -695, -693, -692, -691, -689, -688, -686,
    -685, -684, -682, -681, -680, -678, -677, -675, -674, -673, -671, -670, -669, -667, -666, -665,
    -664, -662, -661, -660, -658, -657, -656, -655, -653, -652, -651, -650, -648, -647, -646, -645,
    -643, -642, -641, -640, -639, -637, -636, -635, -634, -633, -631, -630, -629, -628, -627, -626,
    -624, -623, -622, -621, -620, -619, -618, -616, -615, -614, -613, -612, -611, -610, -609, -608,
    -606, -605, -604, -603, -602, -601, -600, -599, -598, -597, -596, -595, -594, -593, -591, -590,
    -589, -588, -587, -586, -585, -584, -583, -582, -581, -580, -579, -578, -577, -576, -575, -574,
    -573, -572, -571, -570, -569, -568, -567, -567, -566, -565, -564, -563, -562, -561, -560, -559,
    -558, -557, -556, -555, -554, -553, -552, -552, -551, -550, -549, -548, -547, -546, -545, -544,
    -543, -543, -542, -541, -540, -539, -538, -537, -536, -536, -535, -534, -533, -532, -531, -530,
    -530, -529, -528, -527, -526, -525, -525, -524, -523, -522, -521, -521, -520, -519, -518, -517,
    -516, -516, -515, -514, -513, -512, -512, -511, -510, -509, -509, -508, -507, -506, -505, -505,
    -504, -503, -502, -502, -501, -500, -499, -499, -498, -497, -496, -496, -495, -494, -493, -493,
    -492, -491, -490, -490, -489, -488, -488, -487, -486, -485, -485, -484, -483, -483, -482, -481,
    -480, -480, -479, -478, -478, -477, -476, -476, -475, -474, -473, -473, -472, -471, -471, -470,
    -469, -469, -468, -467, -467, -466, -465, -465, -464, -463, -463, -462, -461, -461, -460, -460,
    -459, -458, -458, -457, -456, -456, -455, -454, -454, -453, -453, -452, -451, -451, -450, -449,
    -449, -448, -448, -447, -446, -446, -445, -445, -444, -443, -443, -442, -442, -441, -440, -440,
    -439, -439, -438, -437, -437, -436, -436, -435, -434, -434, -433, -433, -432, -432, -431, -430,
    -430, -429, -429, -428, -428, -427, -426, -426, -425, -425, -424, -424, -423, -423, -422, -421,
    -421, -420, -420, -419, -419, -418, -418, -417, -417, -416, -415, -415, -414, -414, -413, -413,
    -412, -412, -411, -411, -410, -410, -409, -409, -408, -408, -407, -406, -406, -405, -405, -404,
    -404, -403, -403, -402, -402, -401, -401, -400, -400, -399, -399, -398, -398, -397, -397, -396,
    -396, -395, -395, -394, -394, -394, -393, -393, -392, -392, -391, -391, -390, -390, -389, -389,
    -388, -388, -387, -387, -386, -386, -385, -385, -384, -384, -384, -383, -383, -382, -382, -381,
    -381, -380, -380, -379, -379, -379, -378, -378, -377, -377, -376, -376, -375, -375, -374, -374,
    -374, -373, -373, -372, -372, -371, -371, -371, -370, -370, -369, -369, -368, -368, -367, -367,
    -367, -366, -366, -365, -365, -365, -364, -364, -363, -363, -362, -362, -362, -361, -361, -360,
    -360, -360, -359, -359, -358, -358, -357, -357, -357, -356, -356, -355, -355, -355, -354, -354
>>

\* depth_lut[i] of the C code (a zero-based array)
depth_lut(i) == depth_lut_table[i + 1]

(***************************************************************************)
(* Integer helpers: C division truncates toward zero, CLAMP and MAX_NUM    *)
(* are the nlutils macros as zone.c uses them (CLAMP(min, max, val)).      *)
(***************************************************************************)
Abs(a) == IF a < 0 THEN -a ELSE a

Sign(a) == IF a < 0 THEN -1 ELSE 1

\* a / b of C for ints (b # 0)
TruncDiv(a, b) == Sign(a) * Sign(b) * (Abs(a) \div Abs(b))

CLAMP(min, max, val) == IF val < min THEN min ELSE IF val > max THEN max ELSE val

MAX_NUM(a, b) == IF a > b THEN a ELSE b

(***************************************************************************)
(* Projection (zone.c).  TanRecip is 1089 * 0xcccd; the 64-bit products of *)
(* the C code are formed in 15-bit limbs.                                  *)
(***************************************************************************)
TanRecip == 1089 * 52429

Limb == 2^15

\* (((int64_t)zw * (320 - x) * 1089 * 0xcccd) + 0x400000000) >> 35
\* With a = zw * (320 - x) = a1 * 2^15 + a0 and TanRecip = k1 * 2^15 + k0 the
\* product is a1*k1 * 2^30 + (a1*k0 + a0*k1) * 2^15 + a0*k0, and 0x400000000
\* is 16 * 2^30; >> 35 is the floor of the division by 2^35.
xworld(x, zw) ==
    LET a  == zw * (320 - x)
        a1 == a \div Limb
        a0 == a % Limb
        k1 == TanRecip \div Limb
        k0 == TanRecip % Limb
        lo == a0 * k0
        mid == a1 * k0 + a0 * k1 + (lo \div Limb)
        hi == a1 * k1 + 16 + (mid \div Limb)
    IN  hi \div 32

yworld(y, zw) == xworld(y + (FREENECT_FRAME_W - FREENECT_FRAME_H) \div 2, zw)

\* floor((a * 2^35) / (TanRecip * b)) for a >= 0, b > 0, by long division in
\* base 32: seven digits of floor(a * 2^35 / TanRecip) are produced from the
\* remainder r1 and divided by b at once (remainder r2, quotient q).
RECURSIVE ShiftDivStep(_, _, _, _, _)
ShiftDivStep(r1, r2, q, b, n) ==
    IF n = 0 THEN q
    ELSE LET t1 == r1 * 32
             t2 == r2 * 32 + (t1 \div TanRecip)
         IN  ShiftDivStep(t1 % TanRecip, t2 % b, q * 32 + (t2 \div b), b, n - 1)

ShiftDiv(a, b) ==
    LET lead == a \div TanRecip
    IN  ShiftDivStep(a % TanRecip, lead % b, lead \div b, b, 7)

\* 320 - (((int64_t)xw << 35) / (1089 * 0xcccd * (int64_t)zw)); the division
\* truncates toward zero.
xscreen(xw, zw) == 320 - Sign(xw) * Sign(zw) * ShiftDiv(Abs(xw), Abs(zw))

yscreen(yw, zw) == xscreen(yw, zw) - (FREENECT_FRAME_W - FREENECT_FRAME_H) \div 2

(***************************************************************************)
(* reverse_lut (kndsrv.c): the three loops of the function.                *)
(***************************************************************************)
RECURSIVE reverse_lut_search(_, _, _)
reverse_lut_search(idx, off, zw) ==
    IF off > 0 /\ depth_lut(idx) # zw
    THEN reverse_lut_search(IF depth_lut(idx) > zw THEN idx - off ELSE idx + off,
                            off \div 2, zw)
    ELSE idx

RECURSIVE reverse_lut_down(_, _)
reverse_lut_down(idx, zw) ==
    IF depth_lut(idx) > zw /\ idx > 0 THEN reverse_lut_down(idx - 1, zw) ELSE idx

RECURSIVE reverse_lut_up(_, _)
reverse_lut_up(idx, zw) ==
    IF depth_lut(idx + 1) < zw /\ idx <= PXZMAX THEN reverse_lut_up(idx + 1, zw) ELSE idx

\* reverse_lut without the two loops that follow the binary search
reverse_lut_search_only(zw) == reverse_lut_search(546, 273, zw)

reverse_lut(zw) == reverse_lut_up(reverse_lut_down(reverse_lut_search(546, 273, zw), zw), zw)

(***************************************************************************)
(* Coordinate synchronisation (zone.c).  The assignments of                *)
(* recalc_world_from_screen are sequential: xmin .. ymax read the zone's   *)
(* zmin and zmax before the last two lines replace them.                   *)
(***************************************************************************)
recalc_world_from_screen(zone) ==
    [zone EXCEPT
        !.xmin = xworld(zone.px_xmax, IF zone.px_xmax < FREENECT_FRAME_W \div 2 THEN zone.zmax ELSE zone.zmin),
        !.xmax = xworld(zone.px_xmin, IF zone.px_xmin < FREENECT_FRAME_W \div 2 THEN zone.zmin ELSE zone.zmax),
        !.ymin = yworld(zone.px_ymax, IF zone.px_ymax < FREENECT_FRAME_H \div 2 THEN zone.zmax ELSE zone.zmin),
        !.ymax = yworld(zone.px_ymin, IF zone.px_ymin < FREENECT_FRAME_H \div 2 THEN zone.zmin ELSE zone.zmax),
        !.zmin = depth_lut(zone.px_zmin),
        !.zmax = depth_lut(zone.px_zmax)]

\* recalc_screen_from_world without the CLAMP of the x and y ends
recalc_screen_from_world_unclamped(zone) ==
    [zone EXCEPT
        !.px_xmin = xscreen(zone.xmax, IF zone.xmax >= 0 THEN zone.zmin ELSE zone.zmax),
        !.px_xmax = xscreen(zone.xmin, IF zone.xmin >= 0 THEN zone.zmax ELSE zone.zmin),
        !.px_ymin = yscreen(zone.ymax, IF zone.ymax >= 0 THEN zone.zmin ELSE zone.zmax),
        !.px_ymax = yscreen(zone.ymin, IF zone.ymin >= 0 THEN zone.zmax ELSE zone.zmin),
        !.px_zmin = reverse_lut(zone.zmin),
        !.px_zmax = reverse_lut(zone.zmax)]

recalc_screen_from_world(zone) ==
    [zone EXCEPT
        !.px_xmin = CLAMP(0, FREENECT_FRAME_W - 1, xscreen(zone.xmax, IF zone.xmax >= 0 THEN zone.zmin ELSE zone.zmax)),
        !.px_xmax = CLAMP(0, FREENECT_FRAME_W - 1, xscreen(zone.xmin, IF zone.xmin >= 0 THEN zone.zmax ELSE zone.zmin)),
        !.px_ymin = CLAMP(0, FREENECT_FRAME_H - 1, yscreen(zone.ymax, IF zone.ymax >= 0 THEN zone.zmin ELSE zone.zmax)),
        !.px_ymax = CLAMP(0, FREENECT_FRAME_H - 1, yscreen(zone.ymin, IF zone.ymin >= 0 THEN zone.zmax ELSE zone.zmin)),
        !.px_zmin = reverse_lut(zone.zmin),
        !.px_zmax = reverse_lut(zone.zmax)]

(***************************************************************************)
(* Strings.  Zone names and attribute values are C strings, modelled as    *)
(* sequences of character codes so that strcasecmp and atoi are computed   *)
(* character by character.  Attribute keys are only ever compared with     *)
(* strcmp against literals and are modelled as TLA+ strings.               *)
(***************************************************************************)
STR_true == <<116, 114, 117, 101>>
STR_false == <<102, 97, 108, 115, 101>>
STR_pop == <<112, 111, 112>>
STR_sa == <<115, 97>>
STR_bright == <<98, 114, 105, 103, 104, 116>>
STR_xc == <<120, 99>>
STR_yc == <<121, 99>>
STR_zc == <<122, 99>>

tolower(c) == IF c >= 65 /\ c <= 90 THEN c + 32 ELSE c

\* character i of a C string, 0 at and after the terminator
CharAt(str, i) == IF i <= Len(str) THEN str[i] ELSE 0

\* strcasecmp: difference of the first pair of lower-cased characters that
\* differ, 0 when the strings are equal ignoring case
RECURSIVE strcasecmp_from(_, _, _)
strcasecmp_from(a, b, i) ==
    LET ca == tolower(CharAt(a, i))
        cb == tolower(CharAt(b, i))
    IN  IF ca # cb THEN ca - cb
        ELSE IF ca = 0 THEN 0
        ELSE strcasecmp_from(a, b, i + 1)

strcasecmp(a, b) == strcasecmp_from(a, b, 1)

\* strcmp(a, b) == 0
StrEq(a, b) == a = b

isspace(c) == c = 32 \/ (c >= 9 /\ c <= 13)

isdigit(c) == c >= 48 /\ c <= 57

RECURSIVE AtoiSkip(_, _)
AtoiSkip(str, i) == IF isspace(CharAt(str, i)) THEN AtoiSkip(str, i + 1) ELSE i

RECURSIVE AtoiDigits(_, _, _)
AtoiDigits(str, i, acc) ==
    IF isdigit(CharAt(str, i)) THEN AtoiDigits(str, i + 1, acc * 10 + (CharAt(str, i) - 48))
    ELSE acc

\* atoi: white space, an optional sign, then digits up to the first
\* character that is not a digit
atoi(str) ==
    LET i == AtoiSkip(str, 1)
        c == CharAt(str, i)
    IN  IF c = 45 THEN -AtoiDigits(str, i + 1, 0)
        ELSE IF c = 43 THEN AtoiDigits(str, i + 1, 0)
        ELSE AtoiDigits(str, i, 0)

\* The int arguments of add_zone and set_zone are passed as float: an int of
\* more than 24 significant bits is rounded to the nearest float (ties to
\* even).
RECURSIVE FloatUnit(_, _)
FloatUnit(m, unit) == IF m \div unit < 16777216 THEN unit ELSE FloatUnit(m, unit * 2)

IntToFloat(v) ==
    LET m    == Abs(v)
        unit == FloatUnit(m, 1)
        q    == m \div unit
        rem  == m % unit
        up   == rem * 2 > unit \/ (rem * 2 = unit /\ q % 2 = 1)
    IN  Sign(v) * (IF up THEN q + 1 ELSE q) * unit

(***************************************************************************)
(* The zone catalog (struct zonelist, struct zone of knd.h).               *)
(***************************************************************************)
VARIABLES
    zones,           \* zones->zones[0 .. count-1], a sequence of zone records
    version,         \* zones->version, an unsigned int held as two 16-bit halves
    zone_map_dirty,  \* zones->zone_map_dirty
    max_zone,        \* zones->max_zone
    occupied,        \* zones->occupied
    oor_total,       \* zones->oor_total
    depthbuf,        \* the samples of the last depth frame that did not read 2047
    op,              \* the operation that ran last
    reply,           \* the acknowledgement the last command wrote: "OK", "ERR" or ""
    streak,          \* per zone, the depth frames in a row that met / missed the threshold
    steps,           \* number of operations still to run
    arg,             \* the argument of the function called on its own
    result,          \* what that call returned
    clients,         \* per connected client: subscription flags, depth_limit, lines queued
    wake_pipe,       \* the 'Z' and 'V' bytes written to the wakeup pipe and not yet read
    camera,          \* depth frames still to come, video_requested
    conn,            \* per connection: in_buffer, the evbuffer, the bufferevent's output, the wire
    watchdog,        \* the watchdog's lock-protected fields, its thread and the clock
    disk,            \* the files of the save directory and the save in progress
    pipeline,        \* vidproc_info: the depth buffer, its semaphores and counters
    threads          \* per thread: the steps left of its code path and the locks it holds

vars == <<zones, version, zone_map_dirty, max_zone, occupied, oor_total, depthbuf,
          op, reply, streak, steps, arg, result, clients, wake_pipe, camera,
          conn, watchdog, disk, pipeline, threads>>

\* the variables no catalog command and no frame touches when the catalog
\* runs without the server
Elsewhere ==
    UNCHANGED <<arg, result, clients, wake_pipe, camera, conn, watchdog, disk, pipeline, threads>>

\* the parts of the program that are not running in a specification
NotRunning ==
    /\ conn = <<>>
    /\ watchdog = <<>>
    /\ disk = <<>>
    /\ pipeline = <<>>
    /\ threads = <<>>

Aside == UNCHANGED <<conn, watchdog, disk, pipeline, threads>>

\* calloc(1, sizeof(struct zone)) followed by the snprintf of the name
NewZone(name) ==
    [name |-> name, new_zone |-> 0,
     xmin |-> 0, xmax |-> 0, ymin |-> 0, ymax |-> 0, zmin |-> 0, zmax |-> 0,
     px_xmin |-> 0, px_xmax |-> 0, px_ymin |-> 0, px_ymax |-> 0, px_zmin |-> 0, px_zmax |-> 0,
     maxpop |-> 0, lastpop |-> 0, pop |-> 0, xsum |-> 0, ysum |-> 0, zsum |-> 0,
     occupied |-> 0, lastoccupied |-> 0, negate |-> 0, occupied_param |-> ZONE_POP,
     rising_threshold |-> 0, falling_threshold |-> 0, rising_delay |-> 0, falling_delay |-> 0,
     count |-> 0, bsum |-> 0]

\* zones->version as a number of 2^16 * hi + lo
VersionHalf == 2^16

\* bump_zonelist_nolock without the increment
bump_zonelist_nolock_stuck(v) == v

\* bump_zonelist_nolock without the reset at (unsigned int)-1
bump_zonelist_nolock_noreset(v) ==
    IF v.lo = VersionHalf - 1
    THEN [hi |-> (v.hi + 1) % VersionHalf, lo |-> 0]
    ELSE [hi |-> v.hi, lo |-> v.lo + 1]

\* bump_zonelist_nolock: version++, reset to zero when it reaches
\* (unsigned int)-1
bump_zonelist_nolock(v) ==
    LET inc == IF v.lo = VersionHalf - 1
               THEN [hi |-> (v.hi + 1) % VersionHalf, lo |-> 0]
               ELSE [hi |-> v.hi, lo |-> v.lo + 1]
    IN  IF inc.hi = VersionHalf - 1 /\ inc.lo = VersionHalf - 1
        THEN [hi |-> 0, lo |-> 0]
        ELSE inc

\* (unsigned int)-1
VersionError == [hi |-> VersionHalf - 1, lo |-> VersionHalf - 1]

\* zone->maxpop = (px_ymax - px_ymin) * (px_xmax - px_xmin); if(maxpop <= 0) maxpop = 1
ScreenArea(zone) == (zone.px_ymax - zone.px_ymin) * (zone.px_xmax - zone.px_xmin)

\* maxpop without the replacement of a non-positive area by 1
MaxpopOf_unguarded(zone) == ScreenArea(zone)

MaxpopOf(zone) == IF ScreenArea(zone) <= 0 THEN 1 ELSE ScreenArea(zone)

\* The argument checks of add_zone and set_zone_nolock, on the float values
BoxAccepted(box) ==
    /\ ~(IntToFloat(box.xmin) >= IntToFloat(box.xmax)
         \/ IntToFloat(box.ymin) >= IntToFloat(box.ymax)
         \/ IntToFloat(box.zmin) >= IntToFloat(box.zmax))
    /\ ~(IntToFloat(box.zmin) <= 0 \/ IntToFloat(box.zmax) <= 0)

\* set_zone_nolock after its checks, without the version bump
set_zone_nolock(zone, box) ==
    LET placed == [zone EXCEPT !.new_zone = 1,
                               !.xmin = IntToFloat(box.xmin), !.xmax = IntToFloat(box.xmax),
                               !.ymin = IntToFloat(box.ymin), !.ymax = IntToFloat(box.ymax),
                               !.zmin = IntToFloat(box.zmin), !.zmax = IntToFloat(box.zmax)]
        synced == recalc_screen_from_world(placed)
    IN  [synced EXCEPT !.maxpop = MaxpopOf(synced), !.lastpop = -1, !.pop = 0, !.occupied = 0]

\* the loop of add_zone with strcmp in the place of strcasecmp
NameTaken_exact(zs, name) == \E i \in 1..Len(zs) : StrEq(name, zs[i].name)

\* the loop of add_zone over the existing names
NameTaken(zs, name) == \E i \in 1..Len(zs) : strcasecmp(name, zs[i].name) = 0

\* the zone add_zone appends: set_zone_nolock, then the default parameters
add_zone(name, box) ==
    [set_zone_nolock(NewZone(name), box) EXCEPT
        !.occupied_param = ZONE_POP,
        !.rising_threshold = ParamRange(ZONE_POP).def_rising,
        !.falling_threshold = ParamRange(ZONE_POP).def_falling,
        !.rising_delay = 1,
        !.falling_delay = 1]

\* find_zone: index of the first zone with exactly this name, 0 when none
find_zone(zs, name) ==
    IF \E i \in 1..Len(zs) : StrEq(zs[i].name, name)
    THEN CHOOSE i \in 1..Len(zs) : StrEq(zs[i].name, name) /\ \A j \in 1..(i - 1) : ~StrEq(zs[j].name, name)
    ELSE 0

(***************************************************************************)
(* set_zone_attr (zone.c).  SetAttrField is the if/else chain on the key:  *)
(* it yields the zone with the field assigned and which recompute the key  *)
(* asks for, or ok = FALSE where the function returns -1.                  *)
(***************************************************************************)
AttrIval(value) ==
    IF StrEq(value, STR_true) THEN 1
    ELSE IF StrEq(value, STR_false) THEN 0
    ELSE atoi(value)

AttrFail(zone) == [ok |-> FALSE, recalc |-> "NONE", zone |-> zone]

AttrDone(zone, recalc) == [ok |-> TRUE, recalc |-> recalc, zone |-> zone]

ParamOfName(value) ==
    IF StrEq(value, STR_pop) THEN ZONE_POP
    ELSE IF StrEq(value, STR_sa) THEN ZONE_SA
    ELSE IF StrEq(value, STR_bright) THEN ZONE_BRIGHT
    ELSE IF StrEq(value, STR_xc) THEN ZONE_XC
    ELSE IF StrEq(value, STR_yc) THEN ZONE_YC
    ELSE IF StrEq(value, STR_zc) THEN ZONE_ZC
    ELSE -1

SetAttrWorld(zone, attr, ival) ==
    IF attr = "xmin" THEN
        AttrDone([zone EXCEPT !.xmin = ival, !.xmax = IF zone.xmax <= ival THEN ival + 1 ELSE zone.xmax], "SCREEN")
    ELSE IF attr = "xmax" THEN
        AttrDone([zone EXCEPT !.xmax = ival, !.xmin = IF zone.xmin >= ival THEN ival - 1 ELSE zone.xmin], "SCREEN")
    ELSE IF attr = "ymin" THEN
        AttrDone([zone EXCEPT !.ymin = ival, !.ymax = IF zone.ymax <= ival THEN ival + 1 ELSE zone.ymax], "SCREEN")
    ELSE IF attr = "ymax" THEN
        AttrDone([zone EXCEPT !.ymax = ival, !.ymin = IF zone.ymin >= ival THEN ival - 1 ELSE zone.ymin], "SCREEN")
    ELSE IF attr = "zmin" THEN
        IF ival <= 0 THEN AttrFail(zone)
        ELSE AttrDone([zone EXCEPT !.zmin = ival, !.zmax = IF zone.zmax <= ival THEN ival + 1 ELSE zone.zmax], "SCREEN")
    ELSE \* zmax
        IF ival <= 1 THEN AttrFail(zone)
        ELSE AttrDone([zone EXCEPT !.zmax = ival, !.zmin = IF zone.zmin >= ival THEN ival - 1 ELSE zone.zmin], "SCREEN")

SetAttrScreen(zone, attr, ival) ==
    IF attr = "px_xmin" THEN
        IF ival < 0 \/ ival > FREENECT_FRAME_W - 2 THEN AttrFail(zone)
        ELSE AttrDone([zone EXCEPT !.px_xmin = ival, !.px_xmax = IF zone.px_xmax <= ival THEN ival + 1 ELSE zone.px_xmax], "WORLD")
    ELSE IF attr = "px_xmax" THEN
        IF ival < 1 \/ ival > FREENECT_FRAME_W - 1 THEN AttrFail(zone)
        ELSE AttrDone([zone EXCEPT !.px_xmax = ival, !.px_xmin = IF zone.px_xmin >= ival THEN ival - 1 ELSE zone.px_xmin], "WORLD")
    ELSE IF attr = "px_ymin" THEN
        IF ival < 0 \/ ival > FREENECT_FRAME_W - 2 THEN AttrFail(zone)
        ELSE AttrDone([zone EXCEPT !.px_ymin = ival, !.px_ymax = IF zone.px_ymax <= ival THEN ival + 1 ELSE zone.px_ymax], "WORLD")
    ELSE IF attr = "px_ymax" THEN
        IF ival < 1 \/ ival > FREENECT_FRAME_W - 1 THEN AttrFail(zone)
        ELSE AttrDone([zone EXCEPT !.px_ymax = ival, !.px_ymin = IF zone.px_ymin >= ival THEN ival - 1 ELSE zone.px_ymin], "WORLD")
    ELSE IF attr = "px_zmin" THEN
        IF ival < 0 \/ ival > PXZMAX THEN AttrFail(zone)
        ELSE AttrDone([zone EXCEPT !.px_zmin = ival, !.px_zmax = IF zone.px_zmax < ival THEN ival ELSE zone.px_zmax], "WORLD")
    ELSE \* px_zmax
        IF ival < 0 \/ ival > PXZMAX THEN AttrFail(zone)
        ELSE AttrDone([zone EXCEPT !.px_zmax = ival, !.px_zmin = IF zone.px_zmin > ival THEN ival ELSE zone.px_zmin], "WORLD")

SetAttrLogic(zone, attr, value, ival) ==
    IF attr = "negate" THEN
        IF ival # 0 /\ ival # 1 THEN AttrFail(zone)
        ELSE AttrDone([zone EXCEPT !.negate = ival, !.occupied = ival], "NONE")
    ELSE IF attr = "param" THEN
        IF ParamOfName(value) = -1 THEN AttrFail(zone)
        ELSE AttrDone([zone EXCEPT !.occupied_param = ParamOfName(value),
                                   !.occupied = 0,
                                   !.count = 0,
                                   !.rising_threshold = ParamRange(ParamOfName(value)).def_rising,
                                   !.falling_threshold = ParamRange(ParamOfName(value)).def_falling], "NONE")
    ELSE IF attr = "on_level" THEN
        LET range  == ParamRange(zone.occupied_param)
            rising == CLAMP(range.min, range.max, ival)
        IN  AttrDone([zone EXCEPT !.rising_threshold = rising,
                                  !.falling_threshold = IF zone.falling_threshold > rising THEN rising
                                                        ELSE zone.falling_threshold], "NONE")
    ELSE IF attr = "off_level" THEN
        LET range   == ParamRange(zone.occupied_param)
            falling == CLAMP(range.min, range.max, ival)
        IN  AttrDone([zone EXCEPT !.falling_threshold = falling,
                                  !.rising_threshold = IF zone.rising_threshold < falling THEN falling
                                                       ELSE zone.rising_threshold], "NONE")
    ELSE IF attr = "on_delay" THEN
        AttrDone([zone EXCEPT !.rising_delay = MAX_NUM(0, ival)], "NONE")
    ELSE IF attr = "off_delay" THEN
        AttrDone([zone EXCEPT !.falling_delay = MAX_NUM(0, ival)], "NONE")
    ELSE AttrFail(zone) \* Unknown attribute

WorldKeys == {"xmin", "xmax", "ymin", "ymax", "zmin", "zmax"}

ScreenKeys == {"px_xmin", "px_xmax", "px_ymin", "px_ymax", "px_zmin", "px_zmax"}

SetAttrField(zone, attr, value) ==
    IF attr \in WorldKeys THEN SetAttrWorld(zone, attr, AttrIval(value))
    ELSE IF attr \in ScreenKeys THEN SetAttrScreen(zone, attr, AttrIval(value))
    ELSE SetAttrLogic(zone, attr, value, AttrIval(value))

\* the part of set_zone_attr after the chain: recompute, maxpop, new_zone
SetAttrFinish(zone, recalc) ==
    LET synced == IF recalc = "SCREEN" THEN recalc_screen_from_world(zone)
                  ELSE IF recalc = "WORLD" THEN recalc_world_from_screen(zone)
                  ELSE zone
    IN  [synced EXCEPT !.maxpop = MaxpopOf(synced), !.new_zone = 1]

\* set_zone_attr: ok = FALSE is the return value -1 (zone untouched)
set_zone_attr(zone, attr, value) ==
    LET r == SetAttrField(zone, attr, value)
    IN  IF r.ok THEN [ok |-> TRUE, zone |-> SetAttrFinish(r.zone, r.recalc)]
        ELSE [ok |-> FALSE, zone |-> r.zone]

(***************************************************************************)
(* Inputs.  Names, boxes and values the commands are run with.             *)
(***************************************************************************)
NAME_A == <<65>>
NAME_a == <<97>>
NAME_B == <<66>>
NAME_empty == <<>>

Names == {NAME_A, NAME_a, NAME_B, NAME_empty}

Box(xmin, ymin, zmin, xmax, ymax, zmax) ==
    [xmin |-> xmin, ymin |-> ymin, zmin |-> zmin, xmax |-> xmax, ymax |-> ymax, zmax |-> zmax]

\* addzone Living,1,1,1,2,2,2 of the README; a box in the middle of the
\* frame; a box whose far side lies beyond the depth table; boxes the
\* checks refuse (xmin = xmax; zmin = 0; x ends that are one float)
BoxReadme == Box(1, 1, 1, 2, 2, 2)
BoxRoom == Box(-300, -200, 1000, 300, 200, 2000)
BoxDeep == Box(0, 0, 1, 1, 1, 400000)
BoxFlat == Box(5, 0, 1000, 5, 10, 2000)
BoxZero == Box(0, 0, 0, 10, 10, 1000)
BoxFloat == Box(16777216, 0, 1000, 16777217, 10, 2000)

Boxes == {BoxReadme, BoxRoom, BoxDeep, BoxFlat, BoxZero, BoxFloat}

STR_m100 == <<45, 49, 48, 48>>
STR_m1 == <<45, 49>>
STR_0 == <<48>>
STR_1 == <<49>>
STR_300 == <<51, 48, 48>>
STR_639 == <<54, 51, 57>>
STR_1093 == <<49, 48, 57, 51>>
STR_2500 == <<50, 53, 48, 48>>

\* the values tried for each attribute key
AttrValues(attr) ==
    IF attr \in {"xmin", "xmax", "ymin", "ymax"} THEN {STR_m100, STR_0, STR_2500}
    ELSE IF attr \in {"zmin", "zmax"} THEN {STR_0, STR_1, STR_2500}
    ELSE IF attr \in {"px_xmin", "px_xmax", "px_ymin", "px_ymax"} THEN {STR_m1, STR_0, STR_300, STR_639}
    ELSE IF attr \in {"px_zmin", "px_zmax"} THEN {STR_0, STR_300, STR_1093}
    ELSE IF attr = "negate" THEN {STR_true, STR_false, STR_300}
    ELSE IF attr = "param" THEN {STR_pop, STR_sa, STR_bright, STR_xc, STR_300}
    ELSE IF attr \in {"on_level", "off_level"} THEN {STR_m1, STR_300, STR_2500}
    ELSE IF attr \in {"on_delay", "off_delay"} THEN {STR_m1, STR_1}
    ELSE {STR_0}

\* the keys set_zone_attr accepts, a read-only one and an unknown one
Attrs == WorldKeys \cup ScreenKeys \cup
         {"negate", "param", "on_level", "off_level", "on_delay", "off_delay", "pop", "bogus"}

(***************************************************************************)
(* The occupancy engine (zone.c: update_zone_map, update_zonelist_depth,   *)
(* update_zonelist_video; knd.h: zone_xc, zone_yc, zone_zc).  A depth      *)
(* frame is given by the sampled pixels that do not read 2047, as records  *)
(* [x, y, z]; every other sampled pixel reads 2047.  A video frame is      *)
(* given by the one value all its pixels have.                             *)
(***************************************************************************)
\* create_zonelist(2, 2) in main
xskip == 2

yskip == 2

\* UINT16_MAX, the minimum update_zone_map stores where no zone covers
DepthMapEmpty == 65535

\* number of x (or y) values the sweep visits: 0, skip, 2 * skip, ... < size
SampledAlong(size, skip) == (size + skip - 1) \div skip

SampledPixels == SampledAlong(FREENECT_FRAME_W, xskip) * SampledAlong(FREENECT_FRAME_H, yskip)

\* the zones update_zone_map finds covering the pixel (x, y)
Covering(zs, x, y) ==
    {i \in 1..Len(zs) : zs[i].px_xmin <= x /\ zs[i].px_xmax >= x
                        /\ zs[i].px_ymin <= y /\ zs[i].px_ymax >= y}

SetMin(S) == CHOOSE m \in S : \A n \in S : m <= n

SetMax(S) == CHOOSE m \in S : \A n \in S : m >= n

\* depth_map[px * 2] and depth_map[px * 2 + 1] as update_zone_map leaves
\* them; every change of a screen box sets zone_map_dirty, so the map read
\* by a sweep is the map of the zones of that moment
depth_map_min(zs, x, y) ==
    SetMin({DepthMapEmpty} \cup {zs[i].px_zmin : i \in Covering(zs, x, y)})

depth_map_max(zs, x, y) ==
    SetMax({0} \cup {zs[i].px_zmax : i \in Covering(zs, x, y)})

\* the samples of the frame that pass the test against the depth map, with
\* their world coordinates
WorldPoint(p) ==
    [xw |-> xworld(p.x, depth_lut(p.z)), yw |-> yworld(p.y, depth_lut(p.z)), zw |-> depth_lut(p.z)]

InDepthMap(zs, p) ==
    ~(p.z < depth_map_min(zs, p.x, p.y) \/ p.z > depth_map_max(zs, p.x, p.y))

\* the test of the inner loop of the sweep
Contains(zone, w) ==
    /\ w.xw >= zone.xmin /\ w.xw <= zone.xmax
    /\ w.yw >= zone.ymin /\ w.yw <= zone.ymax
    /\ w.zw >= zone.zmin /\ w.zw <= zone.zmax

\* pop, xsum, ysum and zsum of a zone after the samples frame[n .. ]
RECURSIVE Sweep(_, _, _, _)
Sweep(zs, zone, frame, n) ==
    IF n > Len(frame) THEN zone
    ELSE LET w == WorldPoint(frame[n])
             skip == xskip * yskip
         IN  IF InDepthMap(zs, frame[n]) /\ Contains(zone, w)
             THEN Sweep(zs, [zone EXCEPT !.pop = @ + skip, !.xsum = @ + skip * w.xw,
                                         !.ysum = @ + skip * w.yw, !.zsum = @ + skip * w.zw],
                        frame, n + 1)
             ELSE Sweep(zs, zone, frame, n + 1)

\* floor(a * b / c) for 0 <= a, 0 <= b < 2^31, 0 < c, without a product
\* wider than 31 bits: bit by bit on the remainder of a by c
RECURSIVE MulDivBits(_, _, _, _, _, _)
MulDivBits(ra, b, c, bit, q, r) ==
    IF bit < 0 THEN q
    ELSE LET r2 == 2 * r + ((b \div (2 ^ bit)) % 2) * ra
         IN  MulDivBits(ra, b, c, bit - 1, 2 * q + r2 \div c, r2 % c)

MulDiv(a, b, c) == (a \div c) * b + MulDivBits(a % c, b, c, 30, 0, 0)

\* (int)(pop * surface_area((float)zsum / pop)), with
\* surface_area(z) = z * z * 2.760888e-6f, evaluated in integers
SurfaceArea(zone) ==
    IF zone.pop > 0
    THEN MulDiv(MulDiv(zone.zsum, zone.zsum, zone.pop * 1000), 2760888, 1000000000)
    ELSE 0

\* v * k in a 32-bit int for 0 <= k < 2^15: the low 32 bits of the product,
\* read as a signed number (what the build's imul leaves on overflow)
MulInt32(v, k) ==
    LET low == (v % 65536) * k
        hi == (((v \div 65536) % 65536) * k + low \div 65536) % 65536
    IN  (IF hi >= 32768 THEN hi - 65536 ELSE hi) * 65536 + (low % 65536)

\* zone_xc, zone_yc, zone_zc; the divisions are C's, the product by 1000
\* is an int for x and y and an unsigned int for z
zone_xc(zone) ==
    IF zone.pop > 0
    THEN TruncDiv(MulInt32(TruncDiv(zone.xsum, zone.pop) - zone.xmin, 1000), zone.xmax - zone.xmin)
    ELSE -1

zone_yc(zone) ==
    IF zone.pop > 0
    THEN TruncDiv(MulInt32(TruncDiv(zone.ysum, zone.pop) - zone.ymin, 1000), zone.ymax - zone.ymin)
    ELSE -1

zone_zc(zone) ==
    IF zone.pop > 0
    THEN TruncDiv((TruncDiv(zone.zsum, zone.pop) - zone.zmin) * 1000, zone.zmax - zone.zmin)
    ELSE -1

\* the switch on occupied_param divides by zero: the zone has samples and
\* the axis of its param has min = max
ParamTraps(zone) ==
    /\ zone.pop > 0
    /\ \/ zone.occupied_param = ZONE_XC /\ zone.xmax = zone.xmin
       \/ zone.occupied_param = ZONE_YC /\ zone.ymax = zone.ymin
       \/ zone.occupied_param = ZONE_ZC /\ zone.zmax = zone.zmin

\* the switch on occupied_param
ParamValue(zone) ==
    CASE zone.occupied_param = ZONE_SA -> SurfaceArea(zone)
      [] zone.occupied_param = ZONE_BRIGHT -> TruncDiv(zone.bsum * 256, zone.maxpop)
      [] zone.occupied_param = ZONE_XC -> zone_xc(zone)
      [] zone.occupied_param = ZONE_YC -> zone_yc(zone)
      [] zone.occupied_param = ZONE_ZC -> zone_zc(zone)
      [] OTHER -> zone.pop

\* allow_occupied forced to 1 for every param
AllowOccupied_always(zone) == TRUE

\* int allow_occupied = zone->pop > 0, and 1 in the case ZONE_BRIGHT
AllowOccupied(zone) == zone.occupied_param = ZONE_BRIGHT \/ zone.pop > 0

\* occupied = allow_occupied && param >= threshold, for a zone after the sweep
Candidate(zone) ==
    LET threshold == IF zone.occupied = 1 THEN zone.falling_threshold ELSE zone.rising_threshold
    IN  IF AllowOccupied(zone) /\ ParamValue(zone) >= threshold THEN 1 ELSE 0

\* the count and the two delays, for a zone after the sweep
Debounce(zone) ==
    LET count == IF zone.occupied # Candidate(zone) THEN zone.count + 1 ELSE 0
    IN  IF zone.occupied = 0 /\ count > zone.rising_delay
        THEN [zone EXCEPT !.occupied = 1, !.count = 0]
        ELSE IF zone.occupied = 1 /\ count > zone.falling_delay
        THEN [zone EXCEPT !.occupied = 0, !.count = 0]
        ELSE [zone EXCEPT !.count = count]

\* zones->max_zone after the loop over zs[n .. ]: the first zone whose sa
\* is above every sa before it
RECURSIVE MaxZone(_, _, _, _)
MaxZone(zs, n, best, maxsa) ==
    IF n > Len(zs) THEN best
    ELSE IF SurfaceArea(zs[n]) > maxsa
    THEN MaxZone(zs, n + 1, n - 1, SurfaceArea(zs[n]))
    ELSE MaxZone(zs, n + 1, best, maxsa)

\* peak_zone: the name and index of zones[max_zone], no name and -1 when
\* max_zone < 0
peak_zone(zs, mz) ==
    IF mz >= 0
    THEN [found |-> TRUE, name |-> zs[mz + 1].name, index |-> mz]
    ELSE [found |-> FALSE, name |-> <<>>, index |-> -1]

RECURSIVE SumOccupied(_, _)
SumOccupied(zs, n) == IF n > Len(zs) THEN 0 ELSE zs[n].occupied + SumOccupied(zs, n + 1)

\* number of k = first, first + stride, ... below size with lo <= k <= hi
SamplesBetween(lo, hi, first, stride, size) ==
    LET top == IF hi < size - 1 THEN hi ELSE size - 1
        below(v) == IF v < first THEN 0 ELSE (v - first) \div stride + 1
    IN  IF top < lo THEN 0 ELSE below(top) - below(lo - 1)

\* zone->bsum after update_zonelist_video on a frame whose pixels are all b
VideoSum(zone, b) ==
    b * SamplesBetween(zone.px_xmin, zone.px_xmax, 1, 8, FREENECT_FRAME_W)
      * SamplesBetween(zone.px_ymin, zone.px_ymax, 0, 8, FREENECT_FRAME_H)

(***************************************************************************)
(* Bounds of the model.                                                    *)
(***************************************************************************)
\* operations run in one behaviour
MaxSteps == 2

\* the catalog starts at version 0 or this many bumps before (unsigned int)-1
NearWrap == 1

(***************************************************************************)
(* Initial state: create_zonelist (calloc, max_zone = -1).  The version    *)
(* starts at 0; the second start is the catalog after 2^32 - 1 - NearWrap  *)
(* calls of bump_zonelist_version, which no search reaches step by step.   *)
(***************************************************************************)
Op(cmd, name, attr) == [cmd |-> cmd, name |-> name, attr |-> attr]

VersionStarts ==
    {[hi |-> 0, lo |-> 0], [hi |-> VersionHalf - 1, lo |-> VersionHalf - 1 - NearWrap]}

Init ==
    /\ zones = <<>>
    /\ version \in VersionStarts
    /\ zone_map_dirty = 0
    /\ max_zone = -1
    /\ occupied = 0
    /\ oor_total = 0
    /\ depthbuf = <<>>
    /\ op = Op("create_zonelist", <<>>, "")
    /\ reply = ""
    /\ streak = <<>>
    /\ steps = MaxSteps
    /\ arg = <<>>
    /\ result = <<>>
    /\ clients = <<>>
    /\ wake_pipe = <<>>
    /\ camera = <<>>
    /\ NotRunning

\* no depth frame has been counted for or against a zone
NoStreak == [on |-> 0, off |-> 0]

\* what every command leaves alone: the per-frame results and the depth
\* buffer; the frames in a row stay with the zone of the same name
FrameUnchanged ==
    /\ UNCHANGED <<max_zone, occupied, oor_total, depthbuf>>
    /\ streak' = [i \in 1..Len(zones') |->
                     IF find_zone(zones, zones'[i].name) # 0
                     THEN streak[find_zone(zones, zones'[i].name)]
                     ELSE NoStreak]

\* a command answered with ERR after bump_zonelist_nolock had run
Refuse_bumped(cmd, name, attr) ==
    /\ op' = Op(cmd, name, attr)
    /\ reply' = "ERR"
    /\ steps' = steps - 1
    /\ Elsewhere
    /\ version' = bump_zonelist_nolock(version)
    /\ UNCHANGED <<zones, zone_map_dirty>>
    /\ FrameUnchanged

\* a command answered with ERR before the catalog was changed
Refuse(cmd, name, attr) ==
    /\ op' = Op(cmd, name, attr)
    /\ reply' = "ERR"
    /\ steps' = steps - 1
    /\ Elsewhere
    /\ UNCHANGED <<zones, version, zone_map_dirty>>
    /\ FrameUnchanged

\* a command answered with ERR by a function that returned -1 and left the
\* zone list as zs
Failed(cmd, name, attr, zs) ==
    /\ op' = Op(cmd, name, attr)
    /\ reply' = "ERR"
    /\ steps' = steps - 1
    /\ Elsewhere
    /\ zones' = zs
    /\ UNCHANGED <<version, zone_map_dirty>>
    /\ FrameUnchanged

\* a command that replaced the zone list and bumped the version
Commit(cmd, name, attr, zs) ==
    /\ op' = Op(cmd, name, attr)
    /\ reply' = "OK"
    /\ steps' = steps - 1
    /\ Elsewhere
    /\ zones' = zs
    /\ version' = bump_zonelist_nolock(version)
    /\ zone_map_dirty' = 1
    /\ FrameUnchanged

\* add_zone's checks of the name: not empty, no "\r\n\t"
NameAccepted(name) == Len(name) > 0 /\ \A i \in 1..Len(name) : name[i] \notin {13, 10, 9}

\* add_zone returns a zone (not NULL)
AddAccepted(zs, name, box) == NameAccepted(name) /\ BoxAccepted(box) /\ ~NameTaken(zs, name)

\* addzone_func -> add_zone
AddZone(name, box) ==
    /\ steps > 0
    /\ IF AddAccepted(zones, name, box)
       THEN Commit("addzone", name, "", Append(zones, add_zone(name, box)))
       ELSE Refuse("addzone", name, "")

\* setzone_func with the "all" attribute -> find_zone, set_zone
SetZoneAll(name, box) ==
    /\ steps > 0
    /\ LET i == find_zone(zones, name)
       IN  IF i # 0 /\ BoxAccepted(box)
           THEN Commit("setzone_all", name, "all", [zones EXCEPT ![i] = set_zone_nolock(zones[i], box)])
           ELSE Refuse("setzone_all", name, "all")

\* setzone_func with one attribute -> find_zone, set_zone_attr
SetZoneAttr(name, attr, value) ==
    /\ steps > 0
    /\ LET i == find_zone(zones, name)
       IN  IF i = 0 THEN Refuse("setzone_attr", name, attr)
           ELSE IF set_zone_attr(zones[i], attr, value).ok
           THEN Commit("setzone_attr", name, attr, [zones EXCEPT ![i] = set_zone_attr(zones[i], attr, value).zone])
           ELSE Failed("setzone_attr", name, attr, [zones EXCEPT ![i] = set_zone_attr(zones[i], attr, value).zone])

\* addzone_func, setzone_func returning at the count of the arguments or at
\* sscanf, before any call into the catalog
BadArgs(cmd) ==
    /\ steps > 0
    /\ Refuse(cmd, <<>>, "args")

\* the zone list without its i-th zone (remove_zone's memmove and realloc)
RemoveAt(zs, i) == [j \in 1..(Len(zs) - 1) |-> IF j < i THEN zs[j] ELSE zs[j + 1]]

\* rmzone_func -> find_zone, remove_zone
RmZone(name) ==
    /\ steps > 0
    /\ LET i == find_zone(zones, name)
       IN  IF i # 0
           THEN Commit("rmzone", name, "", RemoveAt(zones, i))
           ELSE Refuse("rmzone", name, "")

\* clear_func -> clear_zonelist
Clear ==
    /\ steps > 0
    /\ Commit("clear", <<>>, "", <<>>)

\* bump_zonelist_version
BumpVersion ==
    /\ steps > 0
    /\ op' = Op("bump_version", <<>>, "")
    /\ reply' = ""
    /\ steps' = steps - 1
    /\ Elsewhere
    /\ version' = bump_zonelist_nolock(version)
    /\ zone_map_dirty' = 1
    /\ UNCHANGED zones
    /\ FrameUnchanged

\* zones_func: peak_zone, get_zonelist_version, zone_count, occupied_count
\* and iterate_zonelist only read the catalog
ZonesCmd ==
    /\ steps > 0
    /\ op' = Op("zones", <<>>, "")
    /\ reply' = "OK"
    /\ steps' = steps - 1
    /\ Elsewhere
    /\ UNCHANGED <<zones, version, zone_map_dirty>>
    /\ FrameUnchanged

\* touch_zonelist
Touch ==
    /\ steps > 0
    /\ op' = Op("touch", <<>>, "")
    /\ reply' = ""
    /\ steps' = steps - 1
    /\ Elsewhere
    /\ zones' = [i \in 1..Len(zones) |->
                    [zones[i] EXCEPT !.new_zone = 0, !.lastpop = zones[i].pop,
                                     !.lastoccupied = zones[i].occupied]]
    /\ UNCHANGED <<version, zone_map_dirty>>
    /\ FrameUnchanged

(***************************************************************************)
(* load_zones (save.c), one line of a version 5 file per step.  It runs    *)
(* at start-up, before the server accepts commands.                        *)
(***************************************************************************)
FileLine(name, box, param, rising, falling, rising_delay, falling_delay) ==
    [name |-> name, box |-> box, param |-> param, rising_threshold |-> rising,
     falling_threshold |-> falling, rising_delay |-> rising_delay, falling_delay |-> falling_delay]

\* a line as save_zones writes it for a zone with param bright; a line whose
\* thresholds are swapped; a line whose box has zmin = zmax
FileLines ==
    {FileLine(NAME_A, BoxRoom, ZONE_BRIGHT, 350, 150, 1, 1),
     FileLine(NAME_B, BoxRoom, ZONE_POP, 100, 200, 0, 2),
     FileLine(NAME_a, Box(-50, -50, 1500, 50, 50, 1500), ZONE_XC, 600, 400, 1, 1)}

\* if(xmin == xmax) xmax = xmin + 100, and so for y and z
LoadBox(box) ==
    [box EXCEPT !.xmax = IF box.xmin = box.xmax THEN box.xmin + 100 ELSE box.xmax,
                !.ymax = IF box.ymin = box.ymax THEN box.ymin + 100 ELSE box.ymax,
                !.zmax = IF box.zmin = box.zmax THEN box.zmin + 100 ELSE box.zmax]

\* the zone a file line becomes: add_zone, then the five fields of the line
LoadedZone(line) ==
    [add_zone(line.name, LoadBox(line.box)) EXCEPT
        !.occupied_param = line.param,
        !.rising_threshold = line.rising_threshold,
        !.falling_threshold = line.falling_threshold,
        !.rising_delay = line.rising_delay,
        !.falling_delay = line.falling_delay]

LoadZone(line) ==
    /\ steps > 0
    /\ op.cmd \in {"create_zonelist", "load_zones"}
    /\ op' = Op("load_zones", line.name, "")
    /\ reply' = ""
    /\ steps' = steps - 1
    /\ Elsewhere
    /\ IF AddAccepted(zones, line.name, LoadBox(line.box))
       THEN /\ zones' = Append(zones, LoadedZone(line))
            /\ version' = bump_zonelist_nolock(version)
            /\ zone_map_dirty' = 1
       ELSE UNCHANGED <<zones, version, zone_map_dirty>>
    /\ FrameUnchanged

Next ==
    \/ \E name \in Names, box \in Boxes : AddZone(name, box)
    \/ \E name \in Names, box \in Boxes : SetZoneAll(name, box)
    \/ \E name \in Names, attr \in Attrs : \E value \in AttrValues(attr) : SetZoneAttr(name, attr, value)
    \/ \E name \in Names : RmZone(name)
    \/ \E cmd \in {"addzone", "setzone_attr", "setzone_all"} : BadArgs(cmd)
    \/ Clear
    \/ BumpVersion
    \/ ZonesCmd
    \/ Touch
    \/ \E line \in FileLines : LoadZone(line)

Spec == Init /\ [][Next]_vars

(***************************************************************************)
(* Depth and video frames (depth_callback, video_callback of kndsrv.c).    *)
(***************************************************************************)
\* oor_total with every sampled pixel counted, whatever it reads
OorTotal_all(frame) == xskip * yskip * SampledPixels

\* zones->oor_total after the sweep: skip for every sampled pixel reading 2047
OorTotal(frame) == xskip * yskip * (SampledPixels - Len(frame))

\* the zones after the sweep of update_zonelist_depth, before the loop
\* that decides occupied
Swept(frame) ==
    [i \in 1..Len(zones) |->
        Sweep(zones, [zones[i] EXCEPT !.pop = 0, !.xsum = 0, !.ysum = 0, !.zsum = 0], frame, 1)]

\* update_zonelist_depth on a frame that does not trap
DepthPass(frame) ==
    /\ \A i \in 1..Len(zones) : ~ParamTraps(Swept(frame)[i])
    /\ zones' = [i \in 1..Len(zones) |-> Debounce(Swept(frame)[i])]
    /\ streak' = [i \in 1..Len(zones) |->
                     IF Candidate(Swept(frame)[i]) = 1
                     THEN [on |-> streak[i].on + 1, off |-> 0]
                     ELSE [on |-> 0, off |-> streak[i].off + 1]]
    /\ zone_map_dirty' = 0
    /\ max_zone' = MaxZone(Swept(frame), 1, -1, 0)
    /\ occupied' = SumOccupied(zones', 1)
    /\ oor_total' = OorTotal(frame)
    /\ depthbuf' = frame
    /\ op' = Op("update_depth", <<>>, "")
    /\ reply' = ""
    /\ UNCHANGED version

\* depth_callback -> update_zonelist_depth
UpdateDepth(frame) ==
    /\ steps > 0
    /\ DepthPass(frame)
    /\ steps' = steps - 1
    /\ Elsewhere

\* update_zonelist_depth divides by zero in zone_xc, zone_yc or zone_zc:
\* SIGFPE, crash() prints the trace and calls exit(-1); nothing runs after
UpdateDepthTrap(frame) ==
    /\ steps > 0
    /\ \E i \in 1..Len(zones) : ParamTraps(Swept(frame)[i])
    /\ op' = Op("SIGFPE", <<>>, "")
    /\ reply' = ""
    /\ steps' = 0
    /\ Elsewhere
    /\ depthbuf' = frame
    /\ UNCHANGED <<zones, version, zone_map_dirty, max_zone, occupied, oor_total, streak>>

\* update_zonelist_video on a frame whose pixels are all b
VideoPass(b) ==
    /\ zones' = [i \in 1..Len(zones) |-> [zones[i] EXCEPT !.bsum = VideoSum(zones[i], b)]]
    /\ zone_map_dirty' = 0
    /\ op' = Op("update_video", <<>>, "")
    /\ reply' = ""
    /\ UNCHANGED <<version, max_zone, occupied, oor_total, depthbuf, streak>>

\* video_callback -> update_zonelist_video
UpdateVideo(b) ==
    /\ steps > 0
    /\ VideoPass(b)
    /\ steps' = steps - 1
    /\ Elsewhere

(***************************************************************************)
(* The engine under a short command script.  One zone is loaded or added,  *)
(* then depth and video frames arrive between setzone commands.            *)
(***************************************************************************)
\* frames and commands run in one behaviour of SpecDepth
MaxFrames == 5

Pixel(x, y, z) == [x |-> x, y |-> y, z |-> z]

\* every sampled pixel reads 2047
FrameDark == <<>>

\* one sample inside BoxRoom: raw 800 is 1195 mm, on the axis, 199 mm low
FrameOne == <<Pixel(320, 340, 800)>>

\* two samples inside BoxRoom
FrameTwo == <<Pixel(320, 240, 800), Pixel(300, 230, 850)>>

\* a sample inside the screen box and depth range of BoxRoom and outside
\* its world box, and a sample behind every zone
FrameMiss == <<Pixel(142, 122, 800), Pixel(320, 240, 1000)>>

DepthFrames == {FrameDark, FrameOne, FrameTwo, FrameMiss}

\* a box six kilometres wide: (xsum / pop - xmin) * 1000 leaves the int range
BoxWide == Box(-3000000, -200, 1000, 3000000, 200, 2000)

DepthBoxes == {BoxRoom, BoxWide}

VideoLevels == {0, 255}

STR_2 == <<50>>

\* the setzone commands of the script
DepthAttrValues(attr) ==
    IF attr = "negate" THEN {STR_0, STR_1}
    ELSE IF attr = "param" THEN {STR_pop, STR_bright, STR_yc}
    ELSE IF attr \in {"on_level", "off_level"} THEN {STR_0, STR_1}
    ELSE IF attr \in {"on_delay", "off_delay"} THEN {STR_0, STR_2}
    ELSE {STR_300}

DepthAttrs == {"negate", "param", "on_level", "off_level", "on_delay", "off_delay", "px_ymin"}

\* lines of the zone file: thresholds of one sample, the default delays
DepthFileLines ==
    {FileLine(NAME_A, BoxRoom, ZONE_POP, 1, 1, 1, 1),
     FileLine(NAME_B, BoxRoom, ZONE_SA, 20, 10, 0, 0)}

InitDepth ==
    /\ zones = <<>>
    /\ version = [hi |-> 0, lo |-> 0]
    /\ zone_map_dirty = 0
    /\ max_zone = -1
    /\ occupied = 0
    /\ oor_total = 0
    /\ depthbuf = <<>>
    /\ op = Op("create_zonelist", <<>>, "")
    /\ reply = ""
    /\ streak = <<>>
    /\ steps = MaxFrames
    /\ arg = <<>>
    /\ result = <<>>
    /\ clients = <<>>
    /\ wake_pipe = <<>>
    /\ camera = <<>>
    /\ NotRunning

NextDepth ==
    \/ \E line \in DepthFileLines : LoadZone(line)
    \/ \E frame \in DepthFrames : UpdateDepth(frame)
    \/ \E frame \in DepthFrames : UpdateDepthTrap(frame)
    \/ \E b \in VideoLevels : UpdateVideo(b)
    \/ \E box \in DepthBoxes : SetZoneAll(NAME_A, box)
    \/ \E attr \in DepthAttrs : \E value \in DepthAttrValues(attr) : SetZoneAttr(NAME_A, attr, value)
    \/ Touch

SpecDepth == InitDepth /\ [][NextDepth]_vars

(***************************************************************************)
(* Depth passes between removals: max_zone is written by the depth pass    *)
(* alone, the zone list by addzone, rmzone and clear as well.              *)
(***************************************************************************)
NextPeak ==
    \/ \E line \in DepthFileLines : LoadZone(line)
    \/ \E frame \in DepthFrames : UpdateDepth(frame)
    \/ \E name \in {NAME_A, NAME_B} : RmZone(name)
    \/ Clear
    \/ ZonesCmd

SpecPeak == InitDepth /\ [][NextPeak]_vars

(***************************************************************************)
(* The sweep with and without the depth map.                               *)
(***************************************************************************)
\* a box whose far side is the depth of raw 750 (depth_lut[750] = 1019)
BoxNearSide == Box(-300, -200, 500, 300, 200, 1019)

PruneBoxes == {BoxRoom, BoxNearSide}

\* a sample on the axis at raw 750, alone and with a sample at raw 800
FrameSide == <<Pixel(320, 240, 750)>>

FrameSideTwo == <<Pixel(320, 240, 750), Pixel(320, 240, 800)>>

PruneFrames == {FrameDark, FrameOne, FrameSide, FrameSideTwo}

\* pop, xsum, ysum and zsum of a zone after the samples frame[n .. ] when
\* the test of the inner loop is applied to every sample
RECURSIVE SweepAll(_, _, _)
SweepAll(zone, frame, n) ==
    IF n > Len(frame) THEN zone
    ELSE LET w == WorldPoint(frame[n])
             skip == xskip * yskip
         IN  IF Contains(zone, w)
             THEN SweepAll([zone EXCEPT !.pop = @ + skip, !.xsum = @ + skip * w.xw,
                                        !.ysum = @ + skip * w.yw, !.zsum = @ + skip * w.zw],
                           frame, n + 1)
             ELSE SweepAll(zone, frame, n + 1)

NextPrune ==
    \/ \E name \in {NAME_A, NAME_B} : \E box \in PruneBoxes : AddZone(name, box)
    \/ \E box \in PruneBoxes : SetZoneAll(NAME_A, box)
    \/ \E frame \in PruneFrames : UpdateDepth(frame)

SpecPrune == InitDepth /\ [][NextPrune]_vars

(***************************************************************************)
(* reverse_lut called on its own: the argument is a depth in millimetres   *)
(* at, just below or just above an entry of the table, or far outside it.  *)
(***************************************************************************)
\* arguments are taken up to this many millimetres from every table entry
LutNear == 1

\* and this many millimetres below and above zero
LutFar == 1000000

LutInputs ==
    {depth_lut(i) + d : i \in 0..PXZMAX, d \in -LutNear..LutNear}
        \cup {-LutFar, 0, LutFar}

InitLut ==
    /\ zones = <<>>
    /\ version = [hi |-> 0, lo |-> 0]
    /\ zone_map_dirty = 0
    /\ max_zone = -1
    /\ occupied = 0
    /\ oor_total = 0
    /\ depthbuf = <<>>
    /\ op = Op("create_zonelist", <<>>, "")
    /\ reply = ""
    /\ streak = <<>>
    /\ steps = 1
    /\ arg \in LutInputs
    /\ result = <<>>
    /\ clients = <<>>
    /\ wake_pipe = <<>>
    /\ camera = <<>>
    /\ NotRunning

ReverseLut ==
    /\ steps > 0
    /\ op' = Op("reverse_lut", <<>>, "")
    /\ result' = reverse_lut(arg)
    /\ steps' = steps - 1
    /\ UNCHANGED <<zones, version, zone_map_dirty, max_zone, occupied, oor_total,
                   depthbuf, reply, streak, arg, clients, wake_pipe, camera>>
    /\ Aside

NextLut == ReverseLut

SpecLut == InitLut /\ [][NextLut]_vars

(***************************************************************************)
(* The two conversions called one after the other on a zone that holds a   *)
(* world box, as addzone followed by a setzone of a px_ attribute runs     *)
(* them: recalc_screen_from_world, then recalc_world_from_screen.          *)
(***************************************************************************)
\* x ends are taken up to this many millimetres from -300, 0 and 300
BoxNear == 1

RoundTripXs == {v + d : v \in {-300, 0, 300}, d \in -BoxNear..BoxNear} \cup {-3000, 3000}
RoundTripYs == {-200, -1, 0, 200}
RoundTripZs == {1, 305, 1000, 2000, 377491, 400000}

\* the boxes set_zone_nolock accepts among those with these ends
RoundTripBoxes ==
    {box \in {Box(x[1], y[1], z[1], x[2], y[2], z[2]) :
                 x \in RoundTripXs \X RoundTripXs,
                 y \in RoundTripYs \X RoundTripYs,
                 z \in RoundTripZs \X RoundTripZs} : BoxAccepted(box)}

\* a zone as set_zone_nolock holds it before it calls recalc_screen_from_world
WorldZone(box) ==
    [NewZone(NAME_A) EXCEPT !.new_zone = 1,
                            !.xmin = IntToFloat(box.xmin), !.xmax = IntToFloat(box.xmax),
                            !.ymin = IntToFloat(box.ymin), !.ymax = IntToFloat(box.ymax),
                            !.zmin = IntToFloat(box.zmin), !.zmax = IntToFloat(box.zmax)]

InitBox ==
    /\ zones = <<>>
    /\ version = [hi |-> 0, lo |-> 0]
    /\ zone_map_dirty = 0
    /\ max_zone = -1
    /\ occupied = 0
    /\ oor_total = 0
    /\ depthbuf = <<>>
    /\ op = Op("create_zonelist", <<>>, "")
    /\ reply = ""
    /\ streak = <<>>
    /\ steps = 2
    /\ arg \in {WorldZone(box) : box \in RoundTripBoxes}
    /\ result = <<>>
    /\ clients = <<>>
    /\ wake_pipe = <<>>
    /\ camera = <<>>
    /\ NotRunning

RecalcScreen ==
    /\ steps = 2
    /\ op' = Op("recalc_screen_from_world", <<>>, "")
    /\ result' = recalc_screen_from_world(arg)
    /\ steps' = 1
    /\ UNCHANGED <<zones, version, zone_map_dirty, max_zone, occupied, oor_total,
                   depthbuf, reply, streak, arg, clients, wake_pipe, camera>>
    /\ Aside

RecalcWorld ==
    /\ steps = 1
    /\ op' = Op("recalc_world_from_screen", <<>>, "")
    /\ result' = recalc_world_from_screen(result)
    /\ steps' = 0
    /\ UNCHANGED <<zones, version, zone_map_dirty, max_zone, occupied, oor_total,
                   depthbuf, reply, streak, arg, clients, wake_pipe, camera>>
    /\ Aside

NextBox == RecalcScreen \/ RecalcWorld

SpecBox == InitBox /\ [][NextBox]_vars

(***************************************************************************)
(* The server (kndsrv.c).  The event loop is one thread: it runs           *)
(* parse_line for a line a client sent and knd_wake when the wakeup pipe   *)
(* holds bytes.  The image processing thread runs depth_callback and       *)
(* video_callback, which update the catalog and write 'Z' or 'V' to the    *)
(* pipe.  A client's lines are the lines added to its evbuffer, in the     *)
(* order they were added; flush_client hands them to the socket when the   *)
(* handler returns, so a handler that traps sends none of its lines.       *)
(***************************************************************************)
\* clients connected when the first command arrives
NumClients == 2

\* command lines the server reads in one behaviour
MaxCmds == 3

\* depth frames the camera delivers in one behaviour
MaxDepthFrames == 1

Clients == 1..NumClients

\* calloc(1, sizeof(struct knd_client)); issued counts the lines parse_line
\* was called with
NewClient ==
    [subglobal |-> 0, subdepth |-> 0, subbright |-> 0, subvideo |-> 0, depth_limit |-> 0,
     issued |-> 0, out |-> <<>>]

\* a line of output: an acknowledgement of the n-th command of the client,
\* or a line about a zone written by the n-th run of knd_wake (0: by a command)
AckLine(kind, cmd, n) == [kind |-> kind, cmd |-> cmd, zone |-> <<>>, full |-> 0, n |-> n]

ZoneLine(kind, zone, full, n) == [kind |-> kind, cmd |-> "", zone |-> zone.name, full |-> full, n |-> n]

\* the DEPTH or VIDEO announcement with the bytes that follow it
BlobLine(kind, n) == [kind |-> kind, cmd |-> "", zone |-> <<>>, full |-> 0, n |-> n]

\* send_zone_info evaluates zone_xc, zone_yc and zone_zc whatever the param
\* is: with samples in the zone and an axis of no extent the division traps
PrintTraps(zone) ==
    /\ zone.pop > 0
    /\ (zone.xmax = zone.xmin \/ zone.ymax = zone.ymin \/ zone.zmax = zone.zmin)

\* iterate_zonelist with a callback that sends every zone in full
ZoneLines(kind, zs) == [i \in 1..Len(zs) |-> ZoneLine(kind, zs[i], 1, 0)]

\* the test of subs_callback
Changed(zone) ==
    zone.lastpop # zone.pop \/ zone.lastoccupied # zone.occupied \/ zone.new_zone # 0

\* iterate_zonelist(subs_callback) in the n-th run of knd_wake
SubLines(zs, n) ==
    LET ch == SelectSeq(zs, Changed)
    IN  [i \in 1..Len(ch) |-> ZoneLine("SUB", ch[i], ch[i].new_zone, n)]

\* a command line as parse_line splits it
CmdLine(cmd, name, attr, value) == [cmd |-> cmd, name |-> name, attr |-> attr, value |-> value]

\* what a handler did: the acknowledgement, the client, the zone list,
\* whether the version was bumped, the lines of process_removal and of
\* process_addition for every subscribed client, the lines that follow the
\* acknowledgement, whether send_zone_info trapped, whether request_video ran
Handled(c, ack) ==
    [reply |-> ack, cl |-> clients[c], zs |-> zones, bump |-> FALSE, dels |-> <<>>,
     adds |-> <<>>, own |-> <<>>, traps |-> FALSE, video |-> FALSE, bye |-> FALSE]

sub_func(c) ==
    [Handled(c, "OK") EXCEPT !.cl = [clients[c] EXCEPT !.subglobal = 1],
                             !.own = ZoneLines("SUB", zones),
                             !.traps = \E i \in 1..Len(zones) : PrintTraps(zones[i])]

unsub_func(c) == [Handled(c, "OK") EXCEPT !.cl = [clients[c] EXCEPT !.subglobal = 0]]

zones_func(c) ==
    [Handled(c, "OK") EXCEPT !.own = ZoneLines("ZONE", zones),
                             !.traps = \E i \in 1..Len(zones) : PrintTraps(zones[i])]

getdepth_func(c) ==
    IF clients[c].subdepth = 1
    THEN IF clients[c].depth_limit <= 0 THEN Handled(c, "ERR")
         ELSE [Handled(c, "OK") EXCEPT !.cl = [clients[c] EXCEPT !.depth_limit = @ + 1]]
    ELSE [Handled(c, "OK") EXCEPT !.cl = [clients[c] EXCEPT !.depth_limit = 1, !.subdepth = 1]]

\* an empty value is the command without an argument (argc = 0)
subdepth_func(c, value) ==
    LET count == IF Len(value) = 0 THEN -1 ELSE MAX_NUM(atoi(value), -1)
    IN  [Handled(c, "OK") EXCEPT !.cl = [clients[c] EXCEPT !.depth_limit = count, !.subdepth = 1]]

unsubdepth_func(c) ==
    IF clients[c].subdepth = 0 THEN Handled(c, "ERR")
    ELSE [Handled(c, "OK") EXCEPT !.cl = [clients[c] EXCEPT !.subdepth = 0, !.depth_limit = -1]]

getvideo_func(c) ==
    [Handled(c, "OK") EXCEPT !.cl = [clients[c] EXCEPT !.subvideo = 1], !.video = TRUE]

getbright_func(c) ==
    [Handled(c, "OK") EXCEPT !.cl = [clients[c] EXCEPT !.subbright = 1], !.video = TRUE]

addzone_func(c, name, box) ==
    IF AddAccepted(zones, name, box)
    THEN [Handled(c, "OK") EXCEPT !.zs = Append(zones, add_zone(name, box)),
                                  !.bump = TRUE,
                                  !.adds = <<ZoneLine("ADD", add_zone(name, box), 1, 0)>>]
    ELSE Handled(c, "ERR")

rmzone_func(c, name) ==
    LET i == find_zone(zones, name)
    IN  IF i = 0 THEN Handled(c, "ERR")
        ELSE [Handled(c, "OK") EXCEPT !.zs = RemoveAt(zones, i),
                                      !.bump = TRUE,
                                      !.dels = <<ZoneLine("DEL", zones[i], 0, 0)>>]

setzone_func(c, name, attr, value) ==
    LET i == find_zone(zones, name)
    IN  IF i = 0 THEN Handled(c, "ERR")
        ELSE IF set_zone_attr(zones[i], attr, value).ok
        THEN [Handled(c, "OK") EXCEPT !.zs = [zones EXCEPT ![i] = set_zone_attr(zones[i], attr, value).zone],
                                      !.bump = TRUE]
        ELSE [Handled(c, "ERR") EXCEPT !.zs = [zones EXCEPT ![i] = set_zone_attr(zones[i], attr, value).zone]]

\* clear_func that announces the removal of the first zone alone
clear_func_first(c) ==
    [Handled(c, "OK") EXCEPT !.zs = <<>>,
                             !.bump = TRUE,
                             !.dels = [i \in 1..(IF Len(zones) > 0 THEN 1 ELSE 0) |-> ZoneLine("DEL", zones[i], 0, 0)]]

\* clear_func: process_removal for every zone, then clear_zonelist
clear_func(c) ==
    [Handled(c, "OK") EXCEPT !.zs = <<>>,
                             !.bump = TRUE,
                             !.dels = [i \in 1..Len(zones) |-> ZoneLine("DEL", zones[i], 0, 0)]]

\* bye_func: "OK - Goodbye", then request_shutdown_client
bye_func(c) == [Handled(c, "OK") EXCEPT !.bye = TRUE]

\* the loop of parse_line over commands[]; no match is "Unknown command"
parse_line(c, line) ==
    CASE line.cmd = "sub" -> sub_func(c)
      [] line.cmd = "bye" -> bye_func(c)
      [] line.cmd = "unsub" -> unsub_func(c)
      [] line.cmd = "zones" -> zones_func(c)
      [] line.cmd = "getdepth" -> getdepth_func(c)
      [] line.cmd = "subdepth" -> subdepth_func(c, line.value)
      [] line.cmd = "unsubdepth" -> unsubdepth_func(c)
      [] line.cmd = "getvideo" -> getvideo_func(c)
      [] line.cmd = "getbright" -> getbright_func(c)
      [] line.cmd = "addzone" -> addzone_func(c, line.name, BoxRoom)
      [] line.cmd = "rmzone" -> rmzone_func(c, line.name)
      [] line.cmd = "clear" -> clear_func(c)
      [] line.cmd = "setzone" -> setzone_func(c, line.name, line.attr, line.value)
      [] OTHER -> Handled(c, "ERR")

\* the server has not crashed
Running == op.cmd # "SIGFPE"

\* the operation that ran last in the server: the command and its client,
\* or the trap and the handler it struck
ServerOp(cmd, c, line) ==
    [cmd |-> cmd, name |-> line.name, attr |-> line.attr, client |-> c, during |-> line.cmd]

NoLine == CmdLine("", <<>>, "", <<>>)

\* knd_read -> parse_buffer -> parse_line on one line of client c
ParseLine(c, line) ==
    /\ Running
    /\ steps > 0
    /\ \E h \in {parse_line(c, line)} : \E n \in {clients[c].issued + 1} :
           IF h.traps
           THEN /\ op' = ServerOp("SIGFPE", c, line)
                /\ reply' = ""
                /\ clients' = [clients EXCEPT ![c].issued = n]
                /\ UNCHANGED <<zones, version, zone_map_dirty, camera>>
           ELSE /\ op' = ServerOp(line.cmd, c, line)
                /\ reply' = h.reply
                /\ zones' = h.zs
                /\ version' = IF h.bump THEN bump_zonelist_nolock(version) ELSE version
                /\ zone_map_dirty' = IF h.bump THEN 1 ELSE zone_map_dirty
                /\ camera' = IF h.video THEN [camera EXCEPT !.video_requested = 1] ELSE camera
                /\ clients' =
                       [d \in Clients |->
                           LET was  == IF d = c THEN [h.cl EXCEPT !.issued = n] ELSE clients[d]
                               dels == IF clients[d].subglobal = 1 THEN h.dels ELSE <<>>
                               ack  == IF d = c THEN <<AckLine(h.reply, line.cmd, n)>> \o h.own ELSE <<>>
                               adds == IF clients[d].subglobal = 1 THEN h.adds ELSE <<>>
                           IN  [was EXCEPT !.out = @ \o dels \o ack \o adds]]
    /\ steps' = steps - 1
    /\ FrameUnchanged
    /\ UNCHANGED <<arg, result, wake_pipe>>
    /\ Aside

\* depth_callback: update_zonelist_depth, then kndsrv_send_depth
DepthCallback(frame) ==
    /\ Running
    /\ camera.depth_left > 0
    /\ DepthPass(frame)
    /\ camera' = [camera EXCEPT !.depth_left = @ - 1]
    /\ wake_pipe' = [wake_pipe EXCEPT !.Z = @ + 1]
    /\ UNCHANGED <<steps, arg, result, clients>>
    /\ Aside

\* the camera delivers the video frame request_video asked for:
\* video_callback runs update_zonelist_video, then kndsrv_send_video
VideoCallback(b) ==
    /\ Running
    /\ camera.video_requested = 1
    /\ VideoPass(b)
    /\ camera' = [camera EXCEPT !.video_requested = 0]
    /\ wake_pipe' = [wake_pipe EXCEPT !.V = @ + 1]
    /\ UNCHANGED <<steps, arg, result, clients>>
    /\ Aside

\* process_video without the two assignments of 0
process_video_keep(cl, zs, n) ==
    [cl EXCEPT !.out = @ \o (IF cl.subbright = 1 THEN [i \in 1..Len(zs) |-> ZoneLine("BRIGHT", zs[i], 0, n)] ELSE <<>>)
                         \o (IF cl.subvideo = 1 THEN <<BlobLine("VIDEO", n)>> ELSE <<>>)]

\* process_subscriptions for one client in the n-th run of knd_wake
process_subscriptions(cl, zs, n) ==
    LET limit == IF cl.subdepth = 1 /\ cl.depth_limit > 0 THEN cl.depth_limit - 1 ELSE cl.depth_limit
    IN  [cl EXCEPT !.depth_limit = limit,
                   !.subdepth = IF cl.subdepth = 1 /\ cl.depth_limit > 0 /\ limit = 0 THEN 0 ELSE @,
                   !.out = @ \o (IF cl.subglobal = 1 THEN SubLines(zs, n) ELSE <<>>)
                             \o (IF cl.subdepth = 1 THEN <<BlobLine("DEPTH", n)>> ELSE <<>>)]

\* process_video for one client in the n-th run of knd_wake
process_video(cl, zs, n) ==
    [cl EXCEPT !.subbright = 0,
               !.subvideo = 0,
               !.out = @ \o (IF cl.subbright = 1 THEN [i \in 1..Len(zs) |-> ZoneLine("BRIGHT", zs[i], 0, n)] ELSE <<>>)
                         \o (IF cl.subvideo = 1 THEN <<BlobLine("VIDEO", n)>> ELSE <<>>)]

\* touch_zonelist
touch_zonelist(zs) ==
    [i \in 1..Len(zs) |->
        [zs[i] EXCEPT !.new_zone = 0, !.lastpop = zs[i].pop, !.lastoccupied = zs[i].occupied]]

\* knd_wake: the pipe is read empty; if it held a 'Z' every client's
\* subscriptions are processed and the zone list is touched, if it held a
\* 'V' every client's video requests are served
KndWake ==
    /\ Running
    /\ wake_pipe.Z + wake_pipe.V > 0
    /\ LET n == wake_pipe.runs + 1
           served == [d \in Clients |->
                         IF wake_pipe.Z > 0 THEN process_subscriptions(clients[d], zones, n) ELSE clients[d]]
           touched == IF wake_pipe.Z > 0 THEN touch_zonelist(zones) ELSE zones
       IN  IF /\ wake_pipe.Z > 0
              /\ \E d \in Clients : clients[d].subglobal = 1
              /\ \E i \in 1..Len(zones) : Changed(zones[i]) /\ PrintTraps(zones[i])
           THEN /\ op' = ServerOp("SIGFPE", 0, CmdLine("knd_wake", <<>>, "", <<>>))
                /\ UNCHANGED <<zones, clients>>
           ELSE /\ op' = ServerOp("knd_wake", 0, CmdLine("knd_wake", <<>>, "", <<>>))
                /\ zones' = touched
                /\ clients' = [d \in Clients |->
                                  IF wake_pipe.V > 0 THEN process_video(served[d], touched, n) ELSE served[d]]
    /\ wake_pipe' = [Z |-> 0, V |-> 0, runs |-> wake_pipe.runs + 1, read |-> [Z |-> wake_pipe.Z, V |-> wake_pipe.V]]
    /\ reply' = ""
    /\ UNCHANGED <<version, zone_map_dirty, max_zone, occupied, oor_total, depthbuf, streak,
                   steps, arg, result, camera>>
    /\ Aside

\* the lines the clients send
CommandLines ==
    {CmdLine("sub", <<>>, "", <<>>), CmdLine("unsub", <<>>, "", <<>>),
     CmdLine("zones", <<>>, "", <<>>),
     CmdLine("getdepth", <<>>, "", <<>>), CmdLine("subdepth", <<>>, "", STR_2),
     CmdLine("subdepth", <<>>, "", <<>>), CmdLine("unsubdepth", <<>>, "", <<>>),
     CmdLine("getvideo", <<>>, "", <<>>), CmdLine("getbright", <<>>, "", <<>>),
     CmdLine("addzone", NAME_B, "", <<>>), CmdLine("rmzone", NAME_A, "", <<>>),
     CmdLine("setzone", NAME_A, "px_ymin", STR_300),
     CmdLine("bogus", <<>>, "", <<>>)}

\* the first client sends the commands that change or list its own
\* subscriptions and the zone's box, the others those whose lines reach
\* every subscribed client
CommandLinesOf(c) ==
    IF c = 1 THEN {line \in CommandLines : line.cmd \notin {"addzone", "rmzone"}}
    ELSE {line \in CommandLines : line.cmd \in {"sub", "addzone", "rmzone", "getbright"}}

\* the server starts with the zone a saved file held, loaded by load_zones
\* before the first connection, and with the clients connected
InitServer ==
    /\ zones = <<add_zone(NAME_A, BoxRoom)>>
    /\ version = [hi |-> 0, lo |-> 1]
    /\ zone_map_dirty = 1
    /\ max_zone = -1
    /\ occupied = 0
    /\ oor_total = 0
    /\ depthbuf = <<>>
    /\ op = ServerOp("kndsrv_run", 0, NoLine)
    /\ reply = ""
    /\ streak = <<NoStreak>>
    /\ steps = MaxCmds
    /\ arg = <<>>
    /\ result = <<>>
    /\ clients = [d \in Clients |-> NewClient]
    /\ wake_pipe = [Z |-> 0, V |-> 0, runs |-> 0, read |-> [Z |-> 0, V |-> 0]]
    /\ camera = [depth_left |-> MaxDepthFrames, video_requested |-> 0]
    /\ NotRunning

NextServer ==
    \/ \E c \in Clients : \E line \in CommandLinesOf(c) : ParseLine(c, line)
    \/ DepthCallback(FrameOne)
    \/ \E b \in VideoLevels \ {0} : VideoCallback(b)
    \/ KndWake

SpecServer == InitServer /\ [][NextServer]_vars

(***************************************************************************)
(* knd_wake step by step.  The depth worker runs depth_callback while the  *)
(* server thread is between the calls knd_wake makes: the catalog lock is  *)
(* free between the iterate_zonelist of one client, that of the next, and  *)
(* touch_zonelist.                                                         *)
(***************************************************************************)
\* depth frames the camera delivers in one behaviour
MaxFanFrames == 3

\* the zone of the catalog: one sample occupies it, at once
FanZone == LoadedZone(FileLine(NAME_A, BoxRoom, ZONE_POP, 1, 1, 0, 0))

\* send_zone_info's pop and occupied for a zone
SubInfo(zone) == [kind |-> "SUB", zone |-> zone.name, pop |-> zone.pop, occupied |-> zone.occupied]

\* iterate_zonelist(subs_callback) with the values each line carries
subs_callback_lines(zs) ==
    LET ch == SelectSeq(zs, Changed)
    IN  [i \in 1..Len(ch) |-> SubInfo(ch[i])]

\* client 1 has sent "sub" and received a SUB line for every zone; the
\* other clients have not subscribed
InitFanOut ==
    /\ zones = <<FanZone>>
    /\ version = [hi |-> 0, lo |-> 1]
    /\ zone_map_dirty = 1
    /\ max_zone = -1
    /\ occupied = 0
    /\ oor_total = 0
    /\ depthbuf = <<>>
    /\ op = ServerOp("kndsrv_run", 0, NoLine)
    /\ reply = ""
    /\ streak = <<NoStreak>>
    /\ steps = 0
    /\ arg = <<>>
    /\ result = <<>>
    /\ clients = [d \in Clients |->
                     IF d = 1 THEN [subglobal |-> 1, out |-> <<SubInfo(FanZone)>>]
                     ELSE [subglobal |-> 0, out |-> <<>>]]
    /\ wake_pipe = [Z |-> 0, V |-> 0, runs |-> 0, pc |-> "dispatch", client |-> 0]
    /\ camera = [depth_left |-> MaxFanFrames, video_requested |-> 0]
    /\ NotRunning

FanUnchanged ==
    /\ UNCHANGED <<version, zone_map_dirty, max_zone, occupied, oor_total, depthbuf, op, reply,
                   streak, steps, arg, result, camera>>
    /\ Aside

\* knd_wake reads the pipe empty: depthcount > 0
FanDrain ==
    /\ wake_pipe.pc = "dispatch"
    /\ wake_pipe.Z > 0
    /\ wake_pipe' = [wake_pipe EXCEPT !.Z = 0, !.pc = "fanout", !.client = 1]
    /\ UNCHANGED <<zones, clients>>
    /\ FanUnchanged

\* process_subscriptions(client) for the next client of the list
FanClient ==
    /\ wake_pipe.pc = "fanout"
    /\ LET d == wake_pipe.client
       IN  /\ clients' = [clients EXCEPT ![d].out =
                             @ \o (IF clients[d].subglobal = 1 THEN subs_callback_lines(zones) ELSE <<>>)]
           /\ wake_pipe' = IF d = NumClients
                           THEN [wake_pipe EXCEPT !.pc = "touch", !.client = 0]
                           ELSE [wake_pipe EXCEPT !.client = d + 1]
    /\ UNCHANGED zones
    /\ FanUnchanged

\* touch_zonelist(server->info->zones), and knd_wake returns
FanTouch ==
    /\ wake_pipe.pc = "touch"
    /\ zones' = touch_zonelist(zones)
    /\ wake_pipe' = [wake_pipe EXCEPT !.pc = "dispatch", !.runs = @ + 1]
    /\ UNCHANGED clients
    /\ FanUnchanged

NextFanOut ==
    \/ \E frame \in DepthFrames : DepthCallback(frame)
    \/ FanDrain
    \/ FanClient
    \/ FanTouch

SpecFanOut == InitFanOut /\ [][NextFanOut]_vars

(***************************************************************************)
(* The zone names a subscribed client holds: addzone, rmzone and clear     *)
(* from every client, and the depth wakeups in between.                    *)
(***************************************************************************)
\* command lines the server reads in one behaviour
MaxViewCmds == 4

ViewLines ==
    {CmdLine("sub", <<>>, "", <<>>), CmdLine("clear", <<>>, "", <<>>)}
    \cup {CmdLine(cmd, name, "", <<>>) : cmd \in {"addzone", "rmzone"}, name \in {NAME_A, NAME_a, NAME_B}}

InitView ==
    /\ zones = <<add_zone(NAME_A, BoxRoom)>>
    /\ version = [hi |-> 0, lo |-> 1]
    /\ zone_map_dirty = 1
    /\ max_zone = -1
    /\ occupied = 0
    /\ oor_total = 0
    /\ depthbuf = <<>>
    /\ op = ServerOp("kndsrv_run", 0, NoLine)
    /\ reply = ""
    /\ streak = <<NoStreak>>
    /\ steps = MaxViewCmds
    /\ arg = <<>>
    /\ result = <<>>
    /\ clients = [d \in Clients |-> NewClient]
    /\ wake_pipe = [Z |-> 0, V |-> 0, runs |-> 0, read |-> [Z |-> 0, V |-> 0]]
    /\ camera = [depth_left |-> MaxDepthFrames, video_requested |-> 0]
    /\ NotRunning

NextView ==
    \/ \E c \in Clients : \E line \in ViewLines : ParseLine(c, line)
    \/ DepthCallback(FrameOne)
    \/ KndWake

SpecView == InitView /\ [][NextView]_vars

(***************************************************************************)
(* The connection of a client: knd_read, parse_buffer, the evbuffer the    *)
(* handlers write to (client->buffer), the output buffer of the            *)
(* bufferevent that flush_client moves it to, and the socket.  The text a  *)
(* client sends is held in units: a unit is a terminator ("CR", "LF") or a *)
(* piece of text without one; "bye", "sub" and "addzone" stand for the     *)
(* text of these commands, "x" for any other text.                         *)
(***************************************************************************)
\* ARRAY_SIZE(client->in_buffer) in units (MAX_BUFFER_SIZE is 131072 bytes)
InBufferSize == 4

\* calls of knd_read in one behaviour
MaxReads == 3

Terminators == {"CR", "LF"}

\* nl_strnpbrk(buf + start, "\r\n", count - start): the index of the first
\* terminator at or after start, -1 for NULL (indices count from 0)
nl_strnpbrk(buf, start) ==
    LET found == {k \in start..(Len(buf) - 1) : buf[k + 1] \in Terminators}
    IN  IF found = {} THEN -1 ELSE CHOOSE k \in found : \A j \in found : k <= j

\* the command a line names; text joined to a command word names none
CmdLineOf(line) ==
    IF line = <<"bye">> THEN CmdLine("bye", <<>>, "", <<>>)
    ELSE IF line = <<"sub">> THEN CmdLine("sub", <<>>, "", <<>>)
    ELSE IF line = <<"addzone">> THEN CmdLine("addzone", NAME_B, "", <<>>)
    ELSE CmdLine("bogus", <<>>, "", <<>>)

\* the do-while loop of parse_buffer: the lines handed to parse_line and
\* the value of last when the loop ends; first is 1 in the first iteration.
\* Only bye_func sets shutdown_requested, so the loop ends after its line.
RECURSIVE parse_buffer_loop(_, _, _, _)
parse_buffer_loop(buf, last, first, last_len) ==
    LET tmp == nl_strnpbrk(buf, IF first = 1 THEN last + last_len ELSE last)
    IN  IF tmp = -1 THEN [lines |-> <<>>, last |-> last]
        ELSE IF tmp = last THEN parse_buffer_loop(buf, tmp + 1, 0, last_len)
        ELSE LET line == SubSeq(buf, last + 1, tmp)
                 more == parse_buffer_loop(buf, tmp + 1, 0, last_len)
             IN  IF CmdLineOf(line).cmd = "bye" THEN [lines |-> <<line>>, last |-> tmp + 1]
                 ELSE [lines |-> <<line>> \o more.lines, last |-> more.last]

\* parse_buffer on in_buffer holding last_len units followed by the units
\* just read: the lines parsed and what is left at the start of in_buffer
parse_buffer(buf, last_len) ==
    LET r == parse_buffer_loop(buf, 0, 1, last_len)
    IN  [lines |-> r.lines, in_buffer |-> SubSeq(buf, r.last + 1, Len(buf))]

BufferFull_never(len) == len > InBufferSize

\* the test of knd_read on what parse_buffer returned
BufferFull(len) == len = InBufferSize

\* create_client and setup_connection; ran lists the lines parse_line was
\* called with, wire the lines written to the socket
NewConn ==
    [in_buffer |-> <<>>, buffer |-> <<>>, output |-> <<>>, wire |-> <<>>,
     shutdown_requested |-> 0, shutdown |-> 0, ran |-> <<>>]

\* the kinds of a sequence of output lines
Kinds(lines) == [i \in 1..Len(lines) |-> lines[i].kind]

\* request_shutdown_client on a connection whose evbuffer holds buffer
request_shutdown_client(cn) ==
    [cn EXCEPT !.shutdown_requested = 1,
               !.shutdown = IF Len(cn.buffer) = 0 THEN 1 ELSE @]

\* flush_client: bufferevent_write_buffer moves the evbuffer to the output
flush_client(cn) == [cn EXCEPT !.output = @ \o cn.buffer, !.buffer = <<>>]

\* the units a client sends that one bufferevent_read returns
Chunks ==
    {<<"bye", "LF">>, <<"sub", "LF">>, <<"addzone", "LF">>, <<"x">>, <<"x", "x">>, <<"LF">>,
     <<"bye">>, <<"bye", "CR", "LF", "sub">>, <<"sub", "CR", "LF", "bye">>}

\* the first client sends every chunk; the others subscribe and add a zone,
\* whose ADD line is queued for every subscribed client
ChunksOf(c) ==
    IF c = 1 THEN Chunks ELSE {<<"sub", "LF">>, <<"addzone", "LF">>}

\* the lines of a read that are commands other than bye
Commands(lines) == SelectSeq(lines, LAMBDA line : CmdLineOf(line).cmd # "bye")

\* knd_read of a client that has asked for shutdown: the data is ignored
KndReadIgnored(c) ==
    /\ steps > 0
    /\ conn[c].shutdown_requested = 1
    /\ conn[c].shutdown = 0
    /\ op' = ServerOp("knd_read", c, NoLine)
    /\ reply' = ""
    /\ steps' = steps - 1
    /\ UNCHANGED <<zones, version, zone_map_dirty, clients, conn, camera>>
    /\ FrameUnchanged
    /\ UNCHANGED <<arg, result, wake_pipe, watchdog, disk, pipeline, threads>>

\* knd_read: bufferevent_read into the room left in in_buffer, parse_buffer,
\* the overflow test and flush_client.  A read holds at most one command
\* besides bye.
KndRead(c, chunk) ==
    /\ steps > 0
    /\ conn[c].shutdown_requested = 0
    /\ conn[c].shutdown = 0
    /\ Len(chunk) <= InBufferSize - Len(conn[c].in_buffer)
    /\ \E pb \in {parse_buffer(conn[c].in_buffer \o chunk, Len(conn[c].in_buffer))} :
       \E cmds \in {Commands(pb.lines)} :
         /\ Len(cmds) <= 1
         /\ \E h \in {IF Len(cmds) = 1 THEN parse_line(c, CmdLineOf(cmds[1])) ELSE Handled(c, "")} :
            LET bye  == \E i \in 1..Len(pb.lines) : CmdLineOf(pb.lines[i]).cmd = "bye"
                full == BufferFull(Len(pb.in_buffer))
                sub  == [d \in Clients |-> IF d = c THEN h.cl.subglobal ELSE clients[d].subglobal]
                \* the evbuffer of client d after the command, then after bye
                cmd(d)  == conn[d].buffer
                             \o (IF clients[d].subglobal = 1 THEN Kinds(h.dels) ELSE <<>>)
                             \o (IF d = c /\ Len(cmds) = 1 THEN <<h.reply>> \o Kinds(h.own) ELSE <<>>)
                             \o (IF sub[d] = 1 THEN Kinds(h.adds) ELSE <<>>)
                said == [conn[c] EXCEPT !.buffer = cmd(c) \o (IF bye THEN <<"BYE">> ELSE <<>>),
                                        !.in_buffer = pb.in_buffer,
                                        !.ran = @ \o pb.lines]
                asked == IF bye THEN request_shutdown_client(said) ELSE said
                over == IF full
                        THEN flush_client(request_shutdown_client(
                                 [asked EXCEPT !.buffer = @ \o <<"OVERFLOW">>]))
                        ELSE asked
            IN  /\ conn' = [d \in Clients |->
                               IF d = c THEN flush_client(over)
                               ELSE [conn[d] EXCEPT !.buffer = cmd(d)]]
                /\ clients' = [clients EXCEPT ![c] = h.cl]
                /\ zones' = h.zs
                /\ version' = IF h.bump THEN bump_zonelist_nolock(version) ELSE version
                /\ zone_map_dirty' = IF h.bump THEN 1 ELSE zone_map_dirty
                /\ op' = ServerOp("knd_read", c, IF Len(cmds) = 1 THEN CmdLineOf(cmds[1]) ELSE NoLine)
                /\ reply' = h.reply
    /\ steps' = steps - 1
    /\ FrameUnchanged
    /\ UNCHANGED <<arg, result, wake_pipe, camera, watchdog, disk, pipeline, threads>>

\* the bufferevent writes k lines of its output to the socket; when the
\* output is drained it calls knd_write, which shuts the socket down if
\* that was requested
SocketWrite(c, k) ==
    /\ conn[c].shutdown = 0
    /\ k \in 1..Len(conn[c].output)
    /\ LET rest == SubSeq(conn[c].output, k + 1, Len(conn[c].output))
       IN  conn' = [conn EXCEPT ![c].wire = @ \o SubSeq(conn[c].output, 1, k),
                                ![c].output = rest,
                                ![c].shutdown =
                                    IF Len(rest) = 0 /\ conn[c].shutdown_requested = 1 THEN 1 ELSE @]
    /\ op' = ServerOp("knd_write", c, NoLine)
    /\ reply' = ""
    /\ UNCHANGED <<zones, version, zone_map_dirty, clients, camera, steps>>
    /\ FrameUnchanged
    /\ UNCHANGED <<arg, result, wake_pipe, watchdog, disk, pipeline, threads>>

\* knd_wake after depth frames: process_subscriptions queues the SUB lines
\* of every subscribed client and flushes every client, touch_zonelist
ConnWake ==
    /\ wake_pipe.Z > 0
    /\ conn' = [d \in Clients |->
                   flush_client([conn[d] EXCEPT !.buffer =
                       @ \o Kinds(process_subscriptions(clients[d], zones, 0).out)])]
    /\ zones' = touch_zonelist(zones)
    /\ wake_pipe' = [Z |-> 0, V |-> 0, runs |-> wake_pipe.runs + 1,
                     read |-> [Z |-> wake_pipe.Z, V |-> wake_pipe.V]]
    /\ op' = ServerOp("knd_wake", 0, NoLine)
    /\ reply' = ""
    /\ UNCHANGED <<version, zone_map_dirty, max_zone, occupied, oor_total, depthbuf, streak,
                   steps, arg, result, clients, camera, watchdog, disk, pipeline, threads>>

InitConn ==
    /\ zones = <<add_zone(NAME_A, BoxRoom)>>
    /\ version = [hi |-> 0, lo |-> 1]
    /\ zone_map_dirty = 1
    /\ max_zone = -1
    /\ occupied = 0
    /\ oor_total = 0
    /\ depthbuf = <<>>
    /\ op = ServerOp("kndsrv_run", 0, NoLine)
    /\ reply = ""
    /\ streak = <<NoStreak>>
    /\ steps = MaxReads
    /\ arg = <<>>
    /\ result = <<>>
    /\ clients = [d \in Clients |-> NewClient]
    /\ wake_pipe = [Z |-> 0, V |-> 0, runs |-> 0, read |-> [Z |-> 0, V |-> 0]]
    /\ camera = [depth_left |-> MaxDepthFrames, video_requested |-> 0]
    /\ conn = [d \in Clients |-> NewConn]
    /\ watchdog = <<>>
    /\ disk = <<>>
    /\ pipeline = <<>>
    /\ threads = <<>>

NextConn ==
    \/ \E c \in Clients : \E chunk \in ChunksOf(c) : KndRead(c, chunk)
    \/ \E c \in Clients : KndReadIgnored(c)
    \/ \E c \in Clients : \E k \in 1..2 : SocketWrite(c, k)
    \/ DepthCallback(FrameOne)
    \/ ConnWake

SpecConn == InitConn /\ [][NextConn]_vars

\* one client talking to the server, the camera off
NextRead ==
    \/ \E chunk \in Chunks : KndRead(1, chunk)
    \/ KndReadIgnored(1)
    \/ \E k \in 1..2 : SocketWrite(1, k)

SpecRead == InitConn /\ [][NextRead]_vars

(***************************************************************************)
(* The watchdog: watchdog_thread samples the monotonic clock every         *)
(* interval and calls watchdog_callback on an overrun; the pipeline kicks  *)
(* it, main sets the run timeout; SIGINT and SIGTERM run intr.  The clock  *)
(* counts units; a struct timespec holds TicksPerSec units per second.     *)
(***************************************************************************)
\* the units of tv_nsec in one second (1000000000 ns)
TicksPerSec == 2

\* the clock stops at this many units
MaxTime == 6

\* the timeouts create_watchdog and set_watchdog_timeout are given, in units
InitTimeout == 3

RunTimeout == 1

\* the sampling interval, in units
WdInterval == 1

\* clock_gettime: a normalised struct timespec
TimeSpec(units) == [tv_sec |-> units \div TicksPerSec, tv_nsec |-> units % TicksPerSec]

\* watchdog_thread, lines 144-145: the fields subtracted one by one
TimeSub(a, b) == [tv_sec |-> a.tv_sec - b.tv_sec, tv_nsec |-> a.tv_nsec - b.tv_nsec]

\* watchdog_thread, lines 152-155: the borrow
TimeBorrow(ts) ==
    IF ts.tv_nsec < 0 THEN [tv_sec |-> ts.tv_sec - 1, tv_nsec |-> ts.tv_nsec + TicksPerSec] ELSE ts

Overrun_ge(ts, to) ==
    ts.tv_sec > to.tv_sec \/ (ts.tv_sec = to.tv_sec /\ ts.tv_nsec >= to.tv_nsec)

\* watchdog_thread, lines 157-158: the comparison with the timeout
Overrun(ts, to) ==
    ts.tv_sec > to.tv_sec \/ (ts.tv_sec = to.tv_sec /\ ts.tv_nsec > to.tv_nsec)

\* the handler of a signal: intr sets stop and arms exit for the next one
Deliver(wd, sig) ==
    IF wd.handler[sig] = "intr"
    THEN [wd EXCEPT !.stop = 1, !.handler[sig] = "exit"]
    ELSE [wd EXCEPT !.exited = TRUE]

\* kick_watchdog; kick_at is the clock at the kick, in units
kick_watchdog(wd) == [wd EXCEPT !.last_time = TimeSpec(wd.now), !.kick_at = wd.now]

\* watchdog_callback
watchdog_callback(wd) ==
    LET called == [wd EXCEPT !.calls = @ + 1]
        raised == IF wd.stop = 0
                  THEN [called EXCEPT !.usr2 = @ + 1, !.stop = 1]
                  ELSE Deliver([called EXCEPT !.term = @ + 1], "SIGTERM")
    IN  IF raised.exited THEN raised ELSE kick_watchdog(raised)

\* the time since the last kick is longer than the timeout
Silent(wd) == wd.now - wd.kick_at > wd.timeout.tv_sec * TicksPerSec + wd.timeout.tv_nsec

OnlyWatchdog ==
    /\ UNCHANGED <<zones, version, zone_map_dirty, max_zone, occupied, oor_total, depthbuf,
                   op, reply, streak, steps, arg, result, clients, wake_pipe, camera>>
    /\ UNCHANGED <<conn, disk, pipeline, threads>>

\* main after create_watchdog; sampled, heard and limit keep, in units, the
\* clock the thread sampled and the last kick and the timeout it read;
\* late records that the pipeline was silent for longer than the timeout
InitWatchdog ==
    /\ zones = <<>>
    /\ version = [hi |-> 0, lo |-> 0]
    /\ zone_map_dirty = 0
    /\ max_zone = -1
    /\ occupied = 0
    /\ oor_total = 0
    /\ depthbuf = <<>>
    /\ op = Op("create_watchdog", <<>>, "")
    /\ reply = ""
    /\ streak = <<>>
    /\ steps = 0
    /\ arg = <<>>
    /\ result = <<>>
    /\ clients = <<>>
    /\ wake_pipe = <<>>
    /\ camera = <<>>
    /\ conn = <<>>
    /\ disk = <<>>
    /\ pipeline = <<>>
    /\ threads = <<>>
    /\ watchdog = [now |-> 0, last_time |-> TimeSpec(0), kick_at |-> 0,
                   timeout |-> TimeSpec(InitTimeout),
                   pc |-> "sample", ts |-> TimeSpec(0), to |-> TimeSpec(0), next |-> 0,
                   sampled |-> 0, heard |-> 0, limit |-> 0, late |-> FALSE,
                   calls |-> 0, stop |-> 0, usr2 |-> 0, term |-> 0,
                   handler |-> [sig \in {"SIGINT", "SIGTERM"} |-> "intr"],
                   main |-> "init", exited |-> FALSE]

\* the monotonic clock advances by one unit
ClockTick ==
    /\ ~watchdog.exited
    /\ watchdog.now < MaxTime
    /\ \E wd \in {[watchdog EXCEPT !.now = @ + 1]} :
           watchdog' = [wd EXCEPT !.late = @ \/ Silent(wd)]
    /\ OnlyWatchdog

\* watchdog_thread, lines 131-138: clock_gettime and the next deadline
WdSample ==
    /\ ~watchdog.exited
    /\ watchdog.pc = "sample"
    /\ watchdog' = [watchdog EXCEPT !.ts = TimeSpec(watchdog.now),
                                    !.sampled = watchdog.now,
                                    !.next = @ + WdInterval,
                                    !.pc = "lock"]
    /\ OnlyWatchdog

\* watchdog_thread, lines 140-150: last_time and timeout read under the lock
WdRead ==
    /\ ~watchdog.exited
    /\ watchdog.pc = "lock"
    /\ watchdog' = [watchdog EXCEPT !.ts = TimeSub(watchdog.ts, watchdog.last_time),
                                    !.to = watchdog.timeout,
                                    !.heard = watchdog.kick_at,
                                    !.limit = watchdog.timeout.tv_sec * TicksPerSec + watchdog.timeout.tv_nsec,
                                    !.pc = "compare"]
    /\ OnlyWatchdog

\* watchdog_thread, lines 152-160: the borrow, the comparison, the callback
WdCompare ==
    /\ ~watchdog.exited
    /\ watchdog.pc = "compare"
    /\ \E wd \in {[watchdog EXCEPT !.ts = TimeBorrow(@), !.pc = "sleep"]} :
           watchdog' = IF Overrun(wd.ts, wd.to) THEN watchdog_callback(wd) ELSE wd
    /\ OnlyWatchdog

\* watchdog_thread, line 163: clock_nanosleep until the deadline
WdSleep ==
    /\ ~watchdog.exited
    /\ watchdog.pc = "sleep"
    /\ watchdog.now >= watchdog.next
    /\ watchdog' = [watchdog EXCEPT !.pc = "sample"]
    /\ OnlyWatchdog

\* depth_callback kicks the watchdog for every frame the pipeline hands on
Kick ==
    /\ ~watchdog.exited
    /\ watchdog.main \in {"init", "events"}
    /\ watchdog' = kick_watchdog(watchdog)
    /\ OnlyWatchdog

\* main: set_watchdog_timeout with the run timeout, then the event loop
SetTimeout ==
    /\ ~watchdog.exited
    /\ watchdog.main = "init"
    /\ \E wd \in {[watchdog EXCEPT !.timeout = TimeSpec(RunTimeout), !.main = "events"]} :
           watchdog' = [wd EXCEPT !.late = @ \/ Silent(wd)]
    /\ OnlyWatchdog

\* SIGINT or SIGTERM sent to the process
Signal(sig) ==
    /\ ~watchdog.exited
    /\ watchdog' = Deliver(watchdog, sig)
    /\ OnlyWatchdog

\* main leaves the event loop on the stop flag and stops the pipeline
MainStop ==
    /\ ~watchdog.exited
    /\ watchdog.main = "events"
    /\ watchdog.stop = 1
    /\ watchdog' = [watchdog EXCEPT !.main = "cleanup"]
    /\ OnlyWatchdog

\* main: destroy_watchdog, return
MainReturn ==
    /\ ~watchdog.exited
    /\ watchdog.main = "cleanup"
    /\ watchdog' = [watchdog EXCEPT !.main = "done", !.pc = "done", !.exited = TRUE]
    /\ OnlyWatchdog

NextWatchdog ==
    \/ ClockTick
    \/ WdSample
    \/ WdRead
    \/ WdCompare
    \/ WdSleep
    \/ Kick
    \/ SetTimeout
    \/ \E sig \in {"SIGINT", "SIGTERM"} : Signal(sig)
    \/ MainStop
    \/ MainReturn

SpecWatchdog == InitWatchdog /\ [][NextWatchdog]_vars

(***************************************************************************)
(* Persistence (save.c): save_zones writes zones.knd.tmp and renames it    *)
(* over zones.knd; load_zones reads zones.knd at the next start.  A file   *)
(* is its zone count and its zone lines, each line the characters that     *)
(* save_zone_callback prints.  The server thread runs commands while the   *)
(* save thread is between two calls of save_zones' body.                   *)
(***************************************************************************)
\* commands run in one behaviour of the save thread's specification
MaxSaveCmds == 2

\* calls of save_zones in one behaviour
MaxSaves == 2

ZONE_FORMAT == 5

NoFile == [exists |-> FALSE, filever |-> 0, count |-> 0, lines |-> <<>>]

\* fopen(tmppath, "wt"): the file exists and is empty
EmptyFile == [exists |-> TRUE, filever |-> 0, count |-> 0, lines |-> <<>>]

\* printf's %d
RECURSIVE DecDigits(_)
DecDigits(n) == IF n < 10 THEN <<48 + n>> ELSE DecDigits(n \div 10) \o <<48 + (n % 10)>>

Dec(n) == IF n < 0 THEN <<45>> \o DecDigits(-n) ELSE DecDigits(n)

\* the twelve fields of a zone that a file line carries
SavedFields(zone) ==
    <<zone.xmin, zone.ymin, zone.zmin, zone.xmax, zone.ymax, zone.zmax,
      zone.occupied_param, zone.rising_threshold, zone.falling_threshold,
      zone.rising_delay, zone.falling_delay>>

RECURSIVE JoinDec(_, _)
JoinDec(fields, i) ==
    IF i > Len(fields) THEN <<>> ELSE <<44>> \o Dec(fields[i]) \o JoinDec(fields, i + 1)

\* save_zone_callback without the "\n": "%s,%d,%d,%d,%d,%d,%d,%d,%d,%d,%d,%d"
save_zone_callback(zone) == zone.name \o JoinDec(SavedFields(zone), 1)

\* the text of a file's zone lines, each ended by "\n"
RECURSIVE StreamOf(_, _)
StreamOf(lines, k) ==
    IF k > Len(lines) THEN <<>> ELSE lines[k] \o <<10>> \o StreamOf(lines, k + 1)

\* %127[^,]: the first index from i on that holds a comma or lies past the
\* 127th character taken, Len(str) + 1 when the text ends before
RECURSIVE FieldEnd(_, _, _)
FieldEnd(str, i, taken) ==
    IF i > Len(str) \/ str[i] = 44 \/ taken = ZONE_NAME_LENGTH - 1 THEN i
    ELSE FieldEnd(str, i + 1, taken + 1)

\* the digits of a %d: the first index from i on that holds no digit
RECURSIVE DigitsEnd(_, _)
DigitsEnd(str, i) == IF isdigit(CharAt(str, i)) THEN DigitsEnd(str, i + 1) ELSE i

\* the ",%d" directives of the format and its final "\n", from position p.
\* A directive that does not match leaves the rest of the text unread; eof
\* is set when the text's end has been read.
RECURSIVE ScanInts(_, _, _)
ScanInts(str, p, acc) ==
    IF Len(acc) = 11
    THEN [ints |-> acc, pos |-> AtoiSkip(str, p), eof |-> AtoiSkip(str, p) > Len(str)]
    ELSE IF p > Len(str) THEN [ints |-> acc, pos |-> p, eof |-> TRUE]
    ELSE IF str[p] # 44 THEN [ints |-> acc, pos |-> p, eof |-> FALSE]
    ELSE LET q == AtoiSkip(str, p + 1)
             s == IF CharAt(str, q) \in {43, 45} THEN q + 1 ELSE q
             d == DigitsEnd(str, s)
         IN  IF d = s THEN [ints |-> acc, pos |-> s, eof |-> s > Len(str)]
             ELSE ScanInts(str, d, Append(acc, atoi(SubSeq(str, q, d - 1))))

\* fscanf(input, "%127[^,],%d,%d,%d,%d,%d,%d,%d,%d,%d,%d,%d\n", ...) with
\* the stream at position p: %127[^,] skips no white space and fails on an
\* empty match, consuming nothing
fscanf_zone(str, p) ==
    LET e == FieldEnd(str, p, 0)
        name == SubSeq(str, p, e - 1)
        r == ScanInts(str, e, <<>>)
    IN  IF name = <<>>
        THEN [n |-> IF p > Len(str) THEN -1 ELSE 0, name |-> name, ints |-> <<>>,
              pos |-> p, eof |-> p > Len(str)]
        ELSE [n |-> 1 + Len(r.ints), name |-> name, ints |-> r.ints, pos |-> r.pos, eof |-> r.eof]

\* the file line of the fields fscanf stored
ScannedLine(r) ==
    FileLine(r.name, Box(r.ints[1], r.ints[2], r.ints[3], r.ints[4], r.ints[5], r.ints[6]),
             r.ints[7], r.ints[8], r.ints[9], r.ints[10], r.ints[11])

\* for(i = 0; !feof(input); i++) of load_zones over a version 5 file.  An
\* fscanf that converts nothing consumes nothing, and the loop tries the
\* same bytes again with feof never set: hang.
RECURSIVE load_zones_loop(_, _, _, _)
load_zones_loop(str, p, eof, zs) ==
    IF eof THEN [hang |-> FALSE, zones |-> zs]
    ELSE LET r == fscanf_zone(str, p)
         IN  IF r.n # 12
             THEN IF r.pos = p /\ ~r.eof THEN [hang |-> TRUE, zones |-> zs]
                  ELSE load_zones_loop(str, r.pos, r.eof, zs)
             ELSE IF AddAccepted(zs, r.name, LoadBox(ScannedLine(r).box))
             THEN load_zones_loop(str, r.pos, r.eof, Append(zs, LoadedZone(ScannedLine(r))))
             ELSE load_zones_loop(str, r.pos, r.eof, zs)

\* the zone lines of a file as load_zones reads them into the empty catalog
\* of a start; the "\n" of the count line's "%d\n" has consumed the white
\* space before the first name
load_lines(lines) ==
    LET str == StreamOf(lines, 1)
        p == AtoiSkip(str, 1)
    IN  load_zones_loop(str, p, p > Len(str), <<>>)

load_zones(file) == load_lines(file.lines)

OnlyDisk ==
    UNCHANGED <<zones, version, zone_map_dirty, max_zone, occupied, oor_total, depthbuf,
                op, reply, streak, steps, arg, result, clients, wake_pipe, camera,
                conn, watchdog, pipeline, threads>>

\* fopen of the temporary file
SaveOpen(ok) ==
    /\ disk.pc \in {"idle", "done", "loaded"}
    /\ disk.saves > 0
    /\ disk' = [disk EXCEPT !.saves = @ - 1, !.before = disk.dest, !.error = FALSE,
                            !.loaded = [hang |-> FALSE, zones |-> <<>>],
                            !.saved = <<>>,
                            !.tmp = IF ok THEN EmptyFile ELSE @,
                            !.ret = IF ok THEN 0 ELSE -1,
                            !.pc = IF ok THEN "header" ELSE "done"]
    /\ OnlyDisk

\* the three fprintf of the header; on an error fclose and return -1
SaveHeader(ok) ==
    /\ disk.pc = "header"
    /\ disk' = IF ok
               THEN [disk EXCEPT !.tmp.filever = ZONE_FORMAT, !.tmp.count = Len(zones), !.pc = "zones"]
               ELSE [disk EXCEPT !.ret = -1, !.pc = "done"]
    /\ OnlyDisk

\* iterate_zonelist(info->zones, save_zone_callback, output): the first k
\* lines reach the file; when a write fails the stream's error flag is set
SaveZones(k) ==
    /\ disk.pc = "zones"
    /\ k \in 0..Len(zones)
    /\ disk' = [disk EXCEPT !.tmp.lines = [i \in 1..k |-> save_zone_callback(zones[i])],
                            !.error = k < Len(zones),
                            !.saved = zones,
                            !.pc = "flush"]
    /\ OnlyDisk

\* fflush, then ferror
SaveFlush(ok) ==
    /\ disk.pc = "flush"
    /\ disk' = [disk EXCEPT !.ret = IF ok /\ ~disk.error THEN @ ELSE -1, !.pc = "fsync"]
    /\ OnlyDisk

SaveFsync(ok) ==
    /\ disk.pc = "fsync"
    /\ disk' = [disk EXCEPT !.ret = IF ok THEN @ ELSE -1, !.pc = "fclose"]
    /\ OnlyDisk

SaveClose(ok) ==
    /\ disk.pc = "fclose"
    /\ disk' = [disk EXCEPT !.ret = IF ok THEN @ ELSE -1, !.pc = "rename"]
    /\ OnlyDisk

\* rename(tmppath, path), called whatever ret holds, then last_version
\* when ret is 0
SaveRename(ok) ==
    /\ disk.pc = "rename"
    /\ IF ok
       THEN disk' = [disk EXCEPT !.dest = disk.tmp, !.tmp = NoFile, !.pc = "done",
                                 !.last_version = IF disk.ret = 0 THEN version ELSE @]
       ELSE disk' = [disk EXCEPT !.ret = -1, !.pc = "done"]
    /\ OnlyDisk

\* the next start of the program: load_zones reads zones.knd
LoadZones ==
    /\ disk.pc = "done"
    /\ disk.dest.exists
    /\ disk' = [disk EXCEPT !.loaded = load_zones(disk.dest), !.pc = "loaded"]
    /\ OnlyDisk

NAME_sp == <<32>>
NAME_spA == <<32, 65>>

\* names as addzone_func's sscanf stores them: "addzone A,..", "addzone  A,.."
\* and "addzone  ,.."
SaveNames == {NAME_A, NAME_spA, NAME_sp}

InitSave ==
    /\ zones = <<>>
    /\ version = [hi |-> 0, lo |-> 0]
    /\ zone_map_dirty = 0
    /\ max_zone = -1
    /\ occupied = 0
    /\ oor_total = 0
    /\ depthbuf = <<>>
    /\ op = Op("create_zonelist", <<>>, "")
    /\ reply = ""
    /\ streak = <<>>
    /\ steps = MaxSaveCmds
    /\ arg = <<>>
    /\ result = <<>>
    /\ clients = <<>>
    /\ wake_pipe = <<>>
    /\ camera = <<>>
    /\ conn = <<>>
    /\ watchdog = <<>>
    /\ pipeline = <<>>
    /\ threads = <<>>
    /\ disk = [dest |-> NoFile, tmp |-> NoFile, before |-> NoFile, pc |-> "idle", ret |-> 0,
               error |-> FALSE, saved |-> <<>>, saves |-> MaxSaves,
               loaded |-> [hang |-> FALSE, zones |-> <<>>],
               last_version |-> [hi |-> 0, lo |-> 0]]

NextSave ==
    \/ \E name \in SaveNames : AddZone(name, BoxRoom)
    \/ SetZoneAttr(NAME_A, "px_ymin", STR_300)
    \/ \E ok \in BOOLEAN : SaveOpen(ok)
    \/ \E ok \in BOOLEAN : SaveHeader(ok)
    \/ \E k \in 0..MaxSaveCmds : SaveZones(k)
    \/ \E ok \in BOOLEAN : SaveFlush(ok)
    \/ \E ok \in BOOLEAN : SaveFsync(ok)
    \/ \E ok \in BOOLEAN : SaveClose(ok)
    \/ \E ok \in BOOLEAN : SaveRename(ok)
    \/ LoadZones

SpecSave == InitSave /\ [][NextSave]_vars

(***************************************************************************)
(* The persistence task: save_thread calls check_save for ever, and every  *)
(* call of the C library succeeds.  The server thread changes the catalog  *)
(* between any two steps of save_zones.                                    *)
(***************************************************************************)
\* check_save: the target time has passed; save_zones is called when the
\* version is not the one recorded last
CheckSave ==
    /\ version # disk.last_version
    /\ SaveOpen(TRUE)

save_thread ==
    \/ CheckSave
    \/ SaveHeader(TRUE)
    \/ SaveZones(Len(zones))
    \/ SaveFlush(TRUE)
    \/ SaveFsync(TRUE)
    \/ SaveClose(TRUE)
    \/ SaveRename(TRUE)

NextSaveTask ==
    \/ \E name \in {NAME_A, NAME_B} : AddZone(name, BoxRoom)
    \/ RmZone(NAME_A)
    \/ save_thread

SpecSaveTask == InitSave /\ [][NextSaveTask]_vars /\ WF_vars(save_thread)

(***************************************************************************)
(* load_zones on files that save_zones did not write.                      *)
(***************************************************************************)
\* zone lines of a file
MaxLoadLines == 2

\* a line of the name and the texts of its numeric fields
RECURSIVE JoinTexts(_, _)
JoinTexts(texts, i) ==
    IF i > Len(texts) THEN <<>> ELSE <<44>> \o texts[i] \o JoinTexts(texts, i + 1)

TextLine(name, texts) == name \o JoinTexts(texts, 1)

\* the numeric fields of a line that save_zones writes for a new zone
GoodTexts == [i \in 1..11 |-> Dec(SavedFields(add_zone(NAME_A, BoxRoom))[i])]

GoodLines == {TextLine(NAME_A, GoodTexts), TextLine(NAME_B, GoodTexts)}

\* a line with an empty name, one with an empty numeric field, one whose
\* last field is empty, one that ends after two numbers, an empty line
BadLines ==
    {TextLine(NAME_empty, GoodTexts),
     TextLine(NAME_A, [GoodTexts EXCEPT ![2] = <<>>]),
     TextLine(NAME_A, [GoodTexts EXCEPT ![11] = <<>>]),
     TextLine(NAME_A, SubSeq(GoodTexts, 1, 2)),
     <<>>}

LoadFiles ==
    UNION {[1..n -> GoodLines \cup BadLines] : n \in 0..MaxLoadLines}

InitLoad ==
    /\ zones = <<>>
    /\ version = [hi |-> 0, lo |-> 0]
    /\ zone_map_dirty = 0
    /\ max_zone = -1
    /\ occupied = 0
    /\ oor_total = 0
    /\ depthbuf = <<>>
    /\ op = Op("create_zonelist", <<>>, "")
    /\ reply = ""
    /\ streak = <<>>
    /\ steps = 0
    /\ arg = <<>>
    /\ result = <<>>
    /\ clients = <<>>
    /\ wake_pipe = <<>>
    /\ camera = <<>>
    /\ conn = <<>>
    /\ watchdog = <<>>
    /\ pipeline = <<>>
    /\ threads = <<>>
    /\ \E lines \in LoadFiles, count \in 0..MaxLoadLines :
          disk = [dest |-> [exists |-> TRUE, filever |-> ZONE_FORMAT, count |-> count, lines |-> lines],
                  pc |-> "start", loaded |-> [hang |-> FALSE, zones |-> <<>>]]

\* load_zones at the program's start
LoadAtStart ==
    /\ disk.pc = "start"
    /\ disk' = [disk EXCEPT !.loaded = load_zones(disk.dest), !.pc = "loaded"]
    /\ OnlyDisk

NextLoad == LoadAtStart

SpecLoad == InitLoad /\ [][NextLoad]_vars

(***************************************************************************)
(* The depth buffer of vidproc_info (kndsrv.c): the sensor callback, run   *)
(* by the main thread inside freenect_process_events, hands each frame to  *)
(* the depth worker through depth_buffer, the semaphores depth_empty and   *)
(* depth_full and the mutex depth_in_use.  The clock is CLOCK_REALTIME in  *)
(* milliseconds since the Epoch.                                           *)
(***************************************************************************)
\* frames the sensor delivers in one behaviour
MaxSensorFrames == 3

\* the clock when the program starts, and how long a behaviour lasts
BootTime == 2
MaxPipeTime == 2

\* calls of get_depth by the server thread in one behaviour
MaxGetDepth == 1

\* &(struct timespec){.tv_nsec = 1000000}: 1 ms
SemTimeout == 1

\* sem_timedwait(sem, abs_timeout): the token when there is one; ETIMEDOUT
\* when there is none and the clock has reached abs_timeout, which POSIX
\* measures from the Epoch; "blocked" otherwise
sem_timedwait(sem, now, abs_timeout) ==
    IF sem > 0 THEN "taken"
    ELSE IF now >= abs_timeout THEN "ETIMEDOUT"
    ELSE "blocked"

\* sem_post with a second post of the same token
sem_post_twice(sem) == sem + 2

sem_post(sem) == sem + 1

OnlyPipeline ==
    UNCHANGED <<zones, version, zone_map_dirty, max_zone, occupied, oor_total, depthbuf,
                op, reply, streak, steps, arg, result, clients, wake_pipe, camera,
                conn, watchdog, disk, threads>>

InitPipeline ==
    /\ zones = <<>>
    /\ version = [hi |-> 0, lo |-> 0]
    /\ zone_map_dirty = 0
    /\ max_zone = -1
    /\ occupied = 0
    /\ oor_total = 0
    /\ depthbuf = <<>>
    /\ op = Op("create_zonelist", <<>>, "")
    /\ reply = ""
    /\ streak = <<>>
    /\ steps = 0
    /\ arg = <<>>
    /\ result = <<>>
    /\ clients = <<>>
    /\ wake_pipe = <<>>
    /\ camera = <<>>
    /\ conn = <<>>
    /\ watchdog = <<>>
    /\ disk = <<>>
    /\ threads = <<>>
    /\ pipeline = [now |-> BootTime, depth_empty |-> 1, depth_full |-> 0, depth_in_use |-> "none",
                   stop |-> 0, depth_frames |-> 0, busy_count |-> 0,
                   frames |-> MaxSensorFrames, cb |-> "idle", since |-> 0, waited |-> 0,
                   returned |-> 0, posted |-> 0,
                   buffer |-> 0, partial |-> FALSE, seen |-> <<>>,
                   worker |-> "top", processed |-> 0,
                   server |-> "idle", getdepths |-> MaxGetDepth]

\* the clock advances; a call of sem_timedwait that does not block takes no time
PipeTick ==
    /\ pipeline.now < BootTime + MaxPipeTime
    /\ pipeline.cb = "sem_timedwait" =>
          sem_timedwait(pipeline.depth_empty, pipeline.now, SemTimeout) = "blocked"
    /\ pipeline' = [pipeline EXCEPT !.now = @ + 1]
    /\ OnlyPipeline

\* libfreenect calls depth_callback with a frame, and depth_callback calls
\* sem_timedwait
SensorFrame ==
    /\ pipeline.cb = "idle"
    /\ pipeline.frames > 0
    /\ pipeline' = [pipeline EXCEPT !.frames = @ - 1, !.cb = "sem_timedwait", !.since = pipeline.now]
    /\ OnlyPipeline

\* sem_timedwait(&info->depth_empty, ...) returns; busy_count++ and return
\* on ETIMEDOUT
CbWait ==
    /\ pipeline.cb = "sem_timedwait"
    /\ \E got \in {sem_timedwait(pipeline.depth_empty, pipeline.now, SemTimeout)} :
          /\ got # "blocked"
          /\ pipeline' = IF got = "taken"
                         THEN [pipeline EXCEPT !.depth_empty = @ - 1, !.cb = "lock",
                                               !.waited = pipeline.now - pipeline.since]
                         ELSE [pipeline EXCEPT !.busy_count = @ + 1, !.cb = "idle",
                                               !.returned = @ + 1,
                                               !.waited = pipeline.now - pipeline.since]
    /\ OnlyPipeline

CbLock ==
    /\ pipeline.cb = "lock"
    /\ pipeline.depth_in_use = "none"
    /\ pipeline' = [pipeline EXCEPT !.depth_in_use = "callback", !.cb = "memcpy"]
    /\ OnlyPipeline

\* memcpy(info->depth_buffer, depthbuf, KND_DEPTH_SIZE) has begun: the
\* buffer holds part of the new frame
CbMemcpy ==
    /\ pipeline.cb = "memcpy"
    /\ pipeline' = [pipeline EXCEPT !.buffer = pipeline.depth_frames + 1, !.partial = TRUE,
                                    !.cb = "copy"]
    /\ OnlyPipeline

\* the memcpy is complete; depth_frames++, sem_post(&info->depth_full)
CbCopy ==
    /\ pipeline.cb = "copy"
    /\ pipeline' = [pipeline EXCEPT !.partial = FALSE, !.depth_frames = @ + 1,
                                    !.depth_full = sem_post(@),
                                    !.posted = @ + 1, !.cb = "unlock"]
    /\ OnlyPipeline

CbUnlock ==
    /\ pipeline.cb = "unlock"
    /\ pipeline' = [pipeline EXCEPT !.depth_in_use = "none", !.cb = "idle", !.returned = @ + 1]
    /\ OnlyPipeline

\* while(!get_stop(info) ...
WkTop ==
    /\ pipeline.worker = "top"
    /\ pipeline' = [pipeline EXCEPT !.worker = IF pipeline.stop = 1 THEN "exit" ELSE "sem_wait"]
    /\ OnlyPipeline

\* sem_wait(&info->depth_full), then get_stop
WkSemWait ==
    /\ pipeline.worker = "sem_wait"
    /\ pipeline.depth_full > 0
    /\ pipeline' = [pipeline EXCEPT !.depth_full = @ - 1,
                                    !.worker = IF pipeline.stop = 1 THEN "exit" ELSE "lock"]
    /\ OnlyPipeline

WkLock ==
    /\ pipeline.worker = "lock"
    /\ pipeline.depth_in_use = "none"
    /\ pipeline' = [pipeline EXCEPT !.depth_in_use = "worker", !.worker = "depth_cb"]
    /\ OnlyPipeline

\* info->depth_cb(info->depth_buffer, ...); update_led
WkProcess ==
    /\ pipeline.worker = "depth_cb"
    /\ pipeline' = [pipeline EXCEPT !.processed = @ + 1, !.worker = "sem_post",
                                    !.seen = Append(@, pipeline.buffer)]
    /\ OnlyPipeline

WkPost ==
    /\ pipeline.worker = "sem_post"
    /\ pipeline' = [pipeline EXCEPT !.depth_empty = sem_post(@), !.worker = "unlock"]
    /\ OnlyPipeline

WkUnlock ==
    /\ pipeline.worker = "unlock"
    /\ pipeline' = [pipeline EXCEPT !.depth_in_use = "none", !.worker = "top"]
    /\ OnlyPipeline

\* get_depth, called by the server thread for getdepth and for DEPTH lines
GetDepthLock ==
    /\ pipeline.server = "idle"
    /\ pipeline.getdepths > 0
    /\ pipeline.depth_in_use = "none"
    /\ pipeline' = [pipeline EXCEPT !.depth_in_use = "server", !.server = "cb", !.getdepths = @ - 1]
    /\ OnlyPipeline

GetDepthUnlock ==
    /\ pipeline.server = "cb"
    /\ pipeline' = [pipeline EXCEPT !.depth_in_use = "none", !.server = "idle"]
    /\ OnlyPipeline

\* cleanup_vidproc, called by the main thread after its event loop:
\* set_stop(info, 1); sem_post(&info->depth_full)
CleanupVidproc ==
    /\ pipeline.cb = "idle"
    /\ pipeline.stop = 0
    /\ pipeline' = [pipeline EXCEPT !.stop = 1, !.depth_full = sem_post(@), !.frames = 0]
    /\ OnlyPipeline

NextPipeline ==
    \/ PipeTick
    \/ SensorFrame
    \/ CbWait
    \/ CbLock
    \/ CbMemcpy
    \/ CbCopy
    \/ CbUnlock
    \/ WkTop
    \/ WkSemWait
    \/ WkLock
    \/ WkProcess
    \/ WkPost
    \/ WkUnlock
    \/ GetDepthLock
    \/ GetDepthUnlock
    \/ CleanupVidproc

SpecPipeline == InitPipeline /\ [][NextPipeline]_vars

(***************************************************************************)
(* The threads of the program and their locks: the catalog lock            *)
(* (zones->lock), depth_in_use, video_in_use and param_mutex of            *)
(* vidproc_info, and the watchdog's lock.  A thread runs one of its code   *)
(* paths at a time; a path is the sequence of its lock, unlock, occupancy  *)
(* pass and emit steps, in the order of the code.                          *)
(***************************************************************************)
Lock(l) == <<"lock", l>>
Unlock(l) == <<"unlock", l>>
Emits(kind) == <<"emit", kind>>

\* a function that locks l, works on what l protects and unlocks
Locked(l) == <<Lock(l), Unlock(l)>>

\* get_stop, set_stop, get_tilt, set_tilt of kndsrv.c
param_section == Locked("param_mutex")

\* kick_watchdog, set_watchdog_timeout, get_run, get_stop of watchdog.c
watchdog_section == Locked("wd")

\* update_zonelist_depth: pop, the sums and occupied of every zone are
\* cleared, counted and set under the catalog lock
update_zonelist_depth_ops ==
    <<Lock("zones"), <<"pass", "begin">>, <<"pass", "end">>, Unlock("zones")>>

\* iterate_zonelist with a callback that prints one record per zone
iterate_zonelist_ops(kind) == <<Lock("zones"), Emits(kind), Unlock("zones")>>

\* one turn of depth_thread's loop with depth_callback of kndsrv.c as depth_cb
depth_thread_ops ==
    param_section \o param_section \o <<Lock("depth_in_use")>>
        \o watchdog_section \o update_zonelist_depth_ops \o <<Unlock("depth_in_use")>>

\* one turn of video_thread's loop with video_callback as video_cb
video_thread_ops ==
    param_section \o param_section \o <<Lock("video_in_use")>>
        \o Locked("zones") \o <<Unlock("video_in_use")>>

\* zones_func: peak_zone, get_zonelist_version, zone_count, occupied_count,
\* then iterate_zonelist with zones_callback
zones_func_ops ==
    Locked("zones") \o Locked("zones") \o Locked("zones") \o Locked("zones")
        \o iterate_zonelist_ops("zones")

\* sub_func: iterate_zonelist with sub_func_callback
sub_func_ops == iterate_zonelist_ops("SUB")

\* addzone_func: add_zone, then process_addition -> send_zone_info
addzone_func_ops == Locked("zones") \o <<Emits("ADD")>>

\* process_subscriptions with get_depth called from subs_callback
process_subscriptions_ops_nested ==
    <<Lock("zones"), Emits("SUB"), Lock("depth_in_use"), Unlock("depth_in_use"), Unlock("zones")>>

\* process_subscriptions: iterate_zonelist with subs_callback, then get_depth;
\* knd_wake calls touch_zonelist after the last client
process_subscriptions_ops ==
    iterate_zonelist_ops("SUB") \o Locked("depth_in_use") \o Locked("zones")

\* process_video: iterate_zonelist with bright_callback, then get_video
process_video_ops == iterate_zonelist_ops("BRIGHT") \o Locked("video_in_use")

\* tilt_func: set_tilt, get_tilt
tilt_func_ops == param_section \o param_section

\* check_save -> save_zones: get_zonelist_version, get_tilt, zone_count,
\* iterate_zonelist with save_zone_callback, get_zonelist_version
save_thread_ops ==
    Locked("zones") \o param_section \o Locked("zones") \o Locked("zones") \o Locked("zones")

\* one turn of watchdog_thread's loop, then watchdog_callback's kick_watchdog
watchdog_thread_ops == watchdog_section \o watchdog_section

\* cleanup_vidproc: set_stop, then both buffer mutexes around the free
cleanup_vidproc_ops ==
    param_section \o <<Lock("depth_in_use"), Lock("video_in_use"),
                       Unlock("depth_in_use"), Unlock("video_in_use")>>

ThreadNames ==
    {"depth_thread", "video_thread", "kndsrv_thread", "save_thread", "watchdog_thread", "main"}

\* the code paths of a thread; main: the sensor's depth and video callbacks,
\* vidproc_doevents, set_watchdog_timeout, cleanup_vidproc
PathsOf(t) ==
    CASE t = "depth_thread" -> {depth_thread_ops}
      [] t = "video_thread" -> {video_thread_ops}
      [] t = "kndsrv_thread" -> {zones_func_ops, sub_func_ops, addzone_func_ops,
                                 process_subscriptions_ops, process_video_ops, tilt_func_ops}
      [] t = "save_thread" -> {save_thread_ops}
      [] t = "watchdog_thread" -> {watchdog_thread_ops}
      [] OTHER -> {Locked("depth_in_use"), Locked("video_in_use"), watchdog_section,
                   cleanup_vidproc_ops}

OnlyThreads ==
    UNCHANGED <<zones, version, zone_map_dirty, max_zone, occupied, oor_total, depthbuf,
                op, reply, streak, steps, arg, result, clients, wake_pipe, camera,
                conn, watchdog, disk, pipeline>>

InitThreads ==
    /\ zones = <<>>
    /\ version = [hi |-> 0, lo |-> 0]
    /\ zone_map_dirty = 0
    /\ max_zone = -1
    /\ occupied = 0
    /\ oor_total = 0
    /\ depthbuf = <<>>
    /\ op = Op("create_zonelist", <<>>, "")
    /\ reply = ""
    /\ streak = <<>>
    /\ steps = 0
    /\ arg = <<>>
    /\ result = <<>>
    /\ clients = <<>>
    /\ wake_pipe = <<>>
    /\ camera = <<>>
    /\ conn = <<>>
    /\ watchdog = <<>>
    /\ disk = <<>>
    /\ pipeline = <<>>
    /\ threads = [run |-> [t \in ThreadNames |-> [ops |-> <<>>, held |-> {}]],
                  in_pass |-> FALSE]

Holder(l) == {t \in ThreadNames : l \in threads.run[t].held}

\* the step a thread is about to take
NextOp(t) == IF threads.run[t].ops = <<>> THEN <<"", "">> ELSE Head(threads.run[t].ops)

Advance(t, held) == [threads EXCEPT !.run[t] = [ops |-> Tail(threads.run[t].ops), held |-> held]]

StartPath(t, path) ==
    /\ threads.run[t].ops = <<>>
    /\ threads' = [threads EXCEPT !.run[t].ops = path]
    /\ OnlyThreads

\* pthread_mutex_lock of a PTHREAD_MUTEX_ERRORCHECK mutex: waits while
\* another thread holds it, fails with EDEADLK when the caller holds it
MutexLock(t) ==
    /\ NextOp(t)[1] = "lock"
    /\ Holder(NextOp(t)[2]) \subseteq {t}
    /\ threads' = Advance(t, threads.run[t].held \cup {NextOp(t)[2]})
    /\ OnlyThreads

MutexUnlock(t) ==
    /\ NextOp(t)[1] = "unlock"
    /\ threads' = Advance(t, threads.run[t].held \ {NextOp(t)[2]})
    /\ OnlyThreads

\* the occupancy pass of update_zonelist_depth starts or ends
Pass(t) ==
    /\ NextOp(t)[1] = "pass"
    /\ threads' = [Advance(t, threads.run[t].held) EXCEPT !.in_pass = NextOp(t)[2] = "begin"]
    /\ OnlyThreads

\* send_zone_info (or bright_callback) reads a zone and prints its record
Emit(t) ==
    /\ NextOp(t)[1] = "emit"
    /\ threads' = Advance(t, threads.run[t].held)
    /\ OnlyThreads

NextThreads ==
    \/ \E t \in ThreadNames : \E path \in PathsOf(t) : StartPath(t, path)
    \/ \E t \in ThreadNames : MutexLock(t)
    \/ \E t \in ThreadNames : MutexUnlock(t)
    \/ \E t \in ThreadNames : Pass(t)
    \/ \E t \in ThreadNames : Emit(t)

SpecThreads == InitThreads /\ [][NextThreads]_vars

(***************************************************************************)
(* Start-up (main of kndsrv.c): init_save and create_watchdog start their  *)
(* threads, init_vidproc starts the two workers, load_zones restores the   *)
(* saved zones, kndsrv_run starts the server thread, and only then does    *)
(* the main thread call vidproc_doevents, from which the sensor's frames   *)
(* reach the workers.  A "write" step stores configuration fields of a     *)
(* zone (box, param, thresholds, delays).                                  *)
(***************************************************************************)
Writes(what) == <<"write", what>>

\* load_zones for one line: add_zone stores the box under the catalog lock
\* and returns; param, thresholds and delays are stored after it
load_zone_ops == <<Lock("zones"), Writes("box"), Unlock("zones"), Writes("param")>>

\* main from load_zones, here of a file of two zone lines, to the first
\* vidproc_doevents
main_startup_ops ==
    load_zone_ops \o load_zone_ops \o <<<<"phase", "run">>>>

\* setzone_func: find_zone, then set_zone_attr or set_zone
setzone_func_ops == Locked("zones") \o <<Lock("zones"), Writes("attr"), Unlock("zones")>>

\* the paths that need the server's event loop or a frame from the sensor
PathsWhenRunning(t) ==
    CASE t = "depth_thread" -> {depth_thread_ops}
      [] t = "video_thread" -> {video_thread_ops}
      [] t = "kndsrv_thread" -> {setzone_func_ops, addzone_func_ops}
      [] OTHER -> {Locked("depth_in_use")}

InitStartup ==
    /\ zones = <<>>
    /\ version = [hi |-> 0, lo |-> 0]
    /\ zone_map_dirty = 0
    /\ max_zone = -1
    /\ occupied = 0
    /\ oor_total = 0
    /\ depthbuf = <<>>
    /\ op = Op("create_zonelist", <<>>, "")
    /\ reply = ""
    /\ streak = <<>>
    /\ steps = 0
    /\ arg = <<>>
    /\ result = <<>>
    /\ clients = <<>>
    /\ wake_pipe = <<>>
    /\ camera = <<>>
    /\ conn = <<>>
    /\ watchdog = <<>>
    /\ disk = <<>>
    /\ pipeline = <<>>
    /\ threads = [run |-> [t \in ThreadNames |->
                              [ops |-> IF t = "main" THEN main_startup_ops ELSE <<>>, held |-> {}]],
                  in_pass |-> FALSE, phase |-> "load"]

\* a store to a zone's configuration
Write(t) ==
    /\ NextOp(t)[1] = "write"
    /\ threads' = Advance(t, threads.run[t].held)
    /\ OnlyThreads

\* kndsrv_run, then the main loop's first vidproc_doevents
EnterRun(t) ==
    /\ NextOp(t)[1] = "phase"
    /\ threads' = [Advance(t, threads.run[t].held) EXCEPT !.phase = NextOp(t)[2]]
    /\ OnlyThreads

NextStartup ==
    \/ \E t \in {"save_thread", "watchdog_thread"} : \E path \in PathsOf(t) : StartPath(t, path)
    \/ \E t \in ThreadNames : \E path \in PathsWhenRunning(t) :
          threads.phase = "run" /\ StartPath(t, path)
    \/ \E t \in ThreadNames : MutexLock(t)
    \/ \E t \in ThreadNames : MutexUnlock(t)
    \/ \E t \in ThreadNames : Pass(t)
    \/ \E t \in ThreadNames : Emit(t)
    \/ \E t \in ThreadNames : Write(t)
    \/ \E t \in ThreadNames : EnterRun(t)

SpecStartup == InitStartup /\ [][NextStartup]_vars

(***************************************************************************)
(* The wakeup pipe with its stop byte.  kndsrv_send_depth writes 'Z' from  *)
(* the depth worker, kndsrv_send_video writes 'V' from the video worker    *)
(* and kndsrv_stop writes 'K' from the main thread; knd_wake, on the       *)
(* server thread, reads until the pipe is empty.                           *)
(***************************************************************************)
\* the bytes written to the pipe in one run
MaxWakeBytes == 4

\* ARRAY_SIZE(buf) of knd_wake
WakeBufSize == 1024

WakeBytes == {"Z", "V", "K"}

Min2(a, b) == IF a < b THEN a ELSE b

\* the for loop of knd_wake over buf[i .. ret-1]
RECURSIVE knd_wake_for(_, _, _)
knd_wake_for(buf, i, st) ==
    IF i > Len(buf) THEN st
    ELSE IF buf[i] = "K"
         THEN [st EXCEPT !.loopexit = TRUE, !.depthcount = 0]
         ELSE IF buf[i] = "V"
              THEN knd_wake_for(buf, i + 1, [st EXCEPT !.videocount = @ + 1])
              ELSE knd_wake_for(buf, i + 1, [st EXCEPT !.depthcount = @ + 1])

OnlyWake ==
    UNCHANGED <<zones, version, zone_map_dirty, max_zone, occupied, oor_total, depthbuf,
                op, reply, streak, steps, arg, result, clients, camera,
                conn, watchdog, disk, pipeline, threads>>

NoFanOut == [subs |-> FALSE, touch |-> FALSE, video |-> FALSE]

InitWake ==
    /\ zones = <<>>
    /\ version = [hi |-> 0, lo |-> 0]
    /\ zone_map_dirty = 0
    /\ max_zone = -1
    /\ occupied = 0
    /\ oor_total = 0
    /\ depthbuf = <<>>
    /\ op = Op("kndsrv_run", <<>>, "")
    /\ reply = ""
    /\ streak = <<>>
    /\ steps = 0
    /\ arg = <<>>
    /\ result = <<>>
    /\ clients = <<>>
    /\ camera = <<>>
    /\ conn = <<>>
    /\ watchdog = <<>>
    /\ disk = <<>>
    /\ pipeline = <<>>
    /\ threads = <<>>
    /\ wake_pipe = [pipe |-> <<>>, written |-> 0, stopped |-> FALSE, pc |-> "dispatch",
                    st |-> [depthcount |-> 0, videocount |-> 0, loopexit |-> FALSE],
                    sawK |-> FALSE, fanout |-> NoFanOut, runs |-> 0]

\* write(server->wake_write, "Z", 1) or "V" by a worker; "K" by kndsrv_stop, once
WakeWrite(b) ==
    /\ wake_pipe.written < MaxWakeBytes
    /\ b = "K" => ~wake_pipe.stopped
    /\ wake_pipe' = [wake_pipe EXCEPT !.pipe = Append(@, b), !.written = @ + 1,
                                     !.stopped = @ \/ b = "K"]
    /\ OnlyWake

\* the event loop calls knd_wake: the pipe is readable and no loopexit is pending
KndWakeBegin ==
    /\ wake_pipe.pc = "dispatch"
    /\ ~wake_pipe.st.loopexit
    /\ wake_pipe.pipe # <<>>
    /\ wake_pipe' = [wake_pipe EXCEPT !.pc = "read",
                                     !.st = [depthcount |-> 0, videocount |-> 0, loopexit |-> FALSE],
                                     !.sawK = FALSE, !.fanout = NoFanOut]
    /\ OnlyWake

\* one read() that returns bytes, and the for loop over them
KndWakeRead ==
    /\ wake_pipe.pc = "read"
    /\ wake_pipe.pipe # <<>>
    /\ LET ret == Min2(Len(wake_pipe.pipe), WakeBufSize)
           buf == SubSeq(wake_pipe.pipe, 1, ret)
           st == knd_wake_for(buf, 1, wake_pipe.st)
       IN  wake_pipe' = [wake_pipe EXCEPT !.pipe = SubSeq(@, ret + 1, Len(@)),
                                         !.st = st,
                                         !.sawK = @ \/ \E i \in 1..ret : buf[i] = "K"]
    /\ OnlyWake

\* read() returns -1 with EAGAIN: the loop ends and the fan-out follows
KndWakeEnd ==
    /\ wake_pipe.pc = "read"
    /\ wake_pipe.pipe = <<>>
    /\ wake_pipe' = [wake_pipe EXCEPT !.pc = "dispatch", !.runs = @ + 1,
                                     !.fanout = [subs |-> wake_pipe.st.depthcount # 0,
                                                 touch |-> wake_pipe.st.depthcount # 0,
                                                 video |-> wake_pipe.st.videocount # 0]]
    /\ OnlyWake

NextWake ==
    \/ \E b \in WakeBytes : WakeWrite(b)
    \/ KndWakeBegin
    \/ KndWakeRead
    \/ KndWakeEnd

SpecWake == InitWake /\ [][NextWake]_vars

(***************************************************************************)
(* Teardown: main after the event loop (kndsrv.c 2724-2747).  kndsrv_stop  *)
(* writes 'K' and joins the server thread, save_zones and cleanup_save     *)
(* stop the persistence thread, cleanup_vidproc sets the stop flag, posts  *)
(* each full semaphore once and joins the two workers, destroy_watchdog    *)
(* clears run, cancels and joins the watchdog thread.  The watchdog thread *)
(* of the section above keeps sampling the clock until it is destroyed.    *)
(***************************************************************************)
Workers == {"depth", "video"}

\* where main can find a worker and its full semaphore when the loop ends
WorkerStarts == {<<"top", 1>>, <<"wait", 0>>, <<"got", 0>>, <<"frame", 0>>}

\* where main can find the persistence thread
SaveStarts == {"usleep", "check_save"}

\* how the stop flag was set: by SIGINT or by the watchdog's first overrun
\* (SIGTERM still runs intr), or by SIGTERM (intr has armed exit for the next)
LoopEnds == {"intr", "exit"}

\* the clock of a teardown stops at this many units
MaxTeardownTime == 2

\* the byte a worker's callback writes to the wakeup pipe
WakeByteOf(w) == IF w = "depth" THEN "Z" ELSE "V"

\* the calls of main after the event loop, in order
TeardownPath ==
    <<"kndsrv_send_kill", "join_server", "save_zones", "cleanup_save", "join_save",
      "set_stop", "post_depth", "join_depth", "post_video", "join_video", "close_devices",
      "kndsrv_destroy", "destroy_watchdog", "join_watchdog", "destroy_zonelist", "return">>

\* the thread a join of main waits for
Joined(call) ==
    CASE call = "join_server" -> "server"
      [] call = "join_save" -> "save"
      [] call = "join_depth" -> "depth"
      [] call = "join_video" -> "video"
      [] OTHER -> ""

OnlyTeardown ==
    UNCHANGED <<zones, version, zone_map_dirty, max_zone, occupied, oor_total, depthbuf,
                op, reply, streak, steps, arg, result, clients, wake_pipe, camera,
                conn, disk, pipeline>>

InitTeardown ==
    /\ zones = <<>>
    /\ version = [hi |-> 0, lo |-> 0]
    /\ zone_map_dirty = 0
    /\ max_zone = -1
    /\ occupied = 0
    /\ oor_total = 0
    /\ depthbuf = <<>>
    /\ op = Op("kndsrv_stop", <<>>, "")
    /\ reply = ""
    /\ streak = <<>>
    /\ steps = 0
    /\ arg = <<>>
    /\ result = <<>>
    /\ clients = <<>>
    /\ wake_pipe = <<>>
    /\ camera = <<>>
    /\ conn = <<>>
    /\ disk = <<>>
    /\ pipeline = <<>>
    /\ \E d \in WorkerStarts, v \in WorkerStarts, s \in SaveStarts :
           threads = [main |-> 1,
                      pc |-> [server |-> "loop", depth |-> d[1], video |-> v[1], save |-> s],
                      full |-> [depth |-> d[2], video |-> v[2]],
                      stop |-> 0, save_stop |-> 0, run |-> 1, pipe |-> <<>>]
    /\ \E e \in LoopEnds :
           watchdog = [now |-> 0, last_time |-> TimeSpec(0), kick_at |-> 0,
                       timeout |-> TimeSpec(RunTimeout),
                       pc |-> "sample", ts |-> TimeSpec(0), to |-> TimeSpec(0), next |-> 0,
                       sampled |-> 0, heard |-> 0, limit |-> 0, late |-> FALSE,
                       calls |-> 0, stop |-> 1, usr2 |-> 0, term |-> 0,
                       handler |-> [sig \in {"SIGINT", "SIGTERM"} |-> e],
                       main |-> "cleanup", exited |-> FALSE]

MainCall == TeardownPath[threads.main]

\* main: one call of the teardown; a join returns when its thread has exited
main_teardown ==
    /\ ~watchdog.exited
    /\ threads.main < Len(TeardownPath)
    /\ Joined(MainCall) # "" => threads.pc[Joined(MainCall)] = "exited"
    /\ MainCall = "join_watchdog" => watchdog.pc = "done"
    /\ threads' =
           [[threads EXCEPT !.main = @ + 1] EXCEPT
               !.pipe = IF MainCall = "kndsrv_send_kill" THEN Append(@, "K") ELSE @,
               !.save_stop = IF MainCall = "cleanup_save" THEN 1 ELSE @,
               !.stop = IF MainCall = "set_stop" THEN 1 ELSE @,
               !.full["depth"] = IF MainCall = "post_depth" THEN sem_post(@) ELSE @,
               !.full["video"] = IF MainCall = "post_video" THEN sem_post(@) ELSE @,
               !.run = IF MainCall = "destroy_watchdog" THEN 0 ELSE @]
    /\ UNCHANGED watchdog
    /\ OnlyTeardown

\* kndsrv_thread: the event loop calls knd_wake for the bytes in the pipe and
\* returns after the call that read 'K'
kndsrv_thread ==
    /\ ~watchdog.exited
    /\ threads.pc["server"] = "loop"
    /\ threads.pipe # <<>>
    /\ LET st == knd_wake_for(threads.pipe, 1,
                              [depthcount |-> 0, videocount |-> 0, loopexit |-> FALSE])
       IN  threads' = [threads EXCEPT !.pipe = <<>>,
                                      !.pc["server"] = IF st.loopexit THEN "exited" ELSE "loop"]
    /\ UNCHANGED watchdog
    /\ OnlyTeardown

\* depth_thread and video_thread: the loop test, sem_wait, the second test of
\* the stop flag, and the frame (lock, callback, sem_post of empty, unlock);
\* the depth callback kicks the watchdog, and each callback writes its byte.
\* No call fails here (SIGTERM and SIGINT restart sem_wait), so error_count
\* stays 0
worker_thread(w) ==
    /\ ~watchdog.exited
    /\ \/ /\ threads.pc[w] = "top"
          /\ threads' = [threads EXCEPT !.pc[w] =
                            IF threads.stop = 0 THEN "wait" ELSE "exited"]
          /\ UNCHANGED watchdog
       \/ /\ threads.pc[w] = "wait"
          /\ threads.full[w] > 0
          /\ threads' = [threads EXCEPT !.full[w] = @ - 1, !.pc[w] = "got"]
          /\ UNCHANGED watchdog
       \/ /\ threads.pc[w] = "got"
          /\ threads' = [threads EXCEPT !.pc[w] = IF threads.stop = 1 THEN "exited" ELSE "frame"]
          /\ UNCHANGED watchdog
       \/ /\ threads.pc[w] = "frame"
          /\ threads' = [threads EXCEPT !.pc[w] = "top", !.pipe = Append(@, WakeByteOf(w))]
          /\ watchdog' = IF w = "depth" THEN kick_watchdog(watchdog) ELSE watchdog
    /\ OnlyTeardown

\* save_thread: while(!info->stop) { usleep; check_save }
save_thread_loop ==
    /\ ~watchdog.exited
    /\ threads.pc["save"] # "exited"
    /\ threads' = [threads EXCEPT !.pc["save"] =
                      CASE @ = "test" -> IF threads.save_stop = 0 THEN "usleep" ELSE "exited"
                        [] @ = "usleep" -> "check_save"
                        [] OTHER -> "test"]
    /\ UNCHANGED watchdog
    /\ OnlyTeardown

\* watchdog_thread while main has not destroyed it; after set_run(wd, 0) the
\* thread still finishes the pass it is in
watchdog_thread ==
    /\ threads.run = 1 \/ watchdog.pc \in {"lock", "compare"}
    /\ WdSample \/ WdRead \/ WdCompare \/ WdSleep

\* watchdog_thread after destroy_watchdog: the loop test reads run = 0, or
\* the cancellation is acted on in clock_nanosleep
watchdog_thread_exit ==
    /\ ~watchdog.exited
    /\ threads.run = 0
    /\ watchdog.pc \in {"sample", "sleep"}
    /\ watchdog' = [watchdog EXCEPT !.pc = "done"]
    /\ UNCHANGED threads
    /\ OnlyTeardown

\* the monotonic clock during the teardown
teardown_tick ==
    /\ watchdog.now < MaxTeardownTime
    /\ ClockTick

NextTeardown ==
    \/ main_teardown
    \/ kndsrv_thread
    \/ \E w \in Workers : worker_thread(w)
    \/ save_thread_loop
    \/ watchdog_thread
    \/ watchdog_thread_exit
    \/ teardown_tick

\* every thread that can take a step takes one
TeardownFair ==
    /\ WF_vars(main_teardown)
    /\ WF_vars(kndsrv_thread)
    /\ \A w \in Workers : WF_vars(worker_thread(w))
    /\ WF_vars(save_thread_loop)
    /\ WF_vars(watchdog_thread)
    /\ WF_vars(watchdog_thread_exit)

SpecTeardown == InitTeardown /\ [][NextTeardown]_vars /\ TeardownFair

(***************************************************************************)
(* Properties of the catalog.                                              *)
(***************************************************************************)
ZoneIndices == 1..Len(zones)

\* the zone the last command named (0 when there is none)
Target == find_zone(zones, op.name)

\* C1: every zone has xmin < xmax, ymin < ymax and 0 < zmin < zmax, so the
\* divisors of the centre of gravity are never zero.
C1_WorldBoxOrdered ==
    \A i \in ZoneIndices :
        /\ zones[i].xmin < zones[i].xmax
        /\ zones[i].ymin < zones[i].ymax
        /\ 0 < zones[i].zmin
        /\ zones[i].zmin < zones[i].zmax

ScreenNonNegative(z) ==
    /\ z.px_xmin >= 0 /\ z.px_xmax >= 0
    /\ z.px_ymin >= 0 /\ z.px_ymax >= 0
    /\ z.px_zmin >= 0 /\ z.px_zmax >= 0

PlacedByBox ==
    /\ Target # 0
    /\ \/ op.cmd \in {"addzone", "setzone_all"} /\ reply = "OK"
       \/ op.cmd = "load_zones"

C3_ScreenInFrame ==
    \A i \in ZoneIndices :
        /\ zones[i].px_xmin \in 0..(FREENECT_FRAME_W - 1)
        /\ zones[i].px_xmax \in 0..(FREENECT_FRAME_W - 1)
        /\ zones[i].px_ymin \in 0..(FREENECT_FRAME_H - 1)
        /\ zones[i].px_ymax \in 0..(FREENECT_FRAME_H - 1)
        /\ zones[i].px_zmin \in 0..PXZMAX
        /\ zones[i].px_zmax \in 0..PXZMAX

\* C4 as claimed: maxpop >= 1 and maxpop is the area of the screen box.
C4_MaxpopIsArea ==
    \A i \in ZoneIndices :
        /\ zones[i].maxpop >= 1
        /\ zones[i].maxpop = ScreenArea(zones[i])

\* C4 as amended: maxpop >= 1; maxpop is the area of the screen box when the
\* area is positive and 1 when the area is zero or negative.
C4_MaxpopIsAreaOrOne ==
    \A i \in ZoneIndices :
        /\ zones[i].maxpop >= 1
        /\ (zones[i].px_xmax - zones[i].px_xmin) * (zones[i].px_ymax - zones[i].px_ymin) > 0
              => zones[i].maxpop = (zones[i].px_xmax - zones[i].px_xmin) * (zones[i].px_ymax - zones[i].px_ymin)
        /\ (zones[i].px_xmax - zones[i].px_xmin) * (zones[i].px_ymax - zones[i].px_ymin) <= 0
              => zones[i].maxpop = 1

\* C4's case: a set_attr left a zone with an empty screen box and maxpop 1
C4_Witness ==
    /\ op.cmd = "setzone_attr" /\ reply = "OK" /\ Target # 0
    /\ zones[Target].px_ymax = zones[Target].px_ymin
    /\ zones[Target].maxpop = 1

\* C5: every zone has on_level >= off_level and both thresholds within the
\* [min, max] range of its current param.
C5_ThresholdsInRange ==
    \A i \in ZoneIndices :
        /\ zones[i].rising_threshold >= zones[i].falling_threshold
        /\ zones[i].occupied_param \in ZONE_POP..ZONE_ZC
        /\ zones[i].rising_threshold >= ParamRange(zones[i].occupied_param).min
        /\ zones[i].rising_threshold <= ParamRange(zones[i].occupied_param).max
        /\ zones[i].falling_threshold >= ParamRange(zones[i].occupied_param).min
        /\ zones[i].falling_threshold <= ParamRange(zones[i].occupied_param).max

\* C6: no two zones have names that are equal ignoring ASCII case, and an
\* add whose name matches an existing zone ignoring case is answered with ERR
\* and leaves the zones as they were.
C6_NamesUnique ==
    [][/\ \A i, j \in 1..Len(zones') :
             i # j => strcasecmp(zones'[i].name, zones'[j].name) # 0
       /\ (op'.cmd = "addzone"
           /\ \E i \in ZoneIndices : strcasecmp(op'.name, zones[i].name) = 0)
              => (reply' = "ERR" /\ zones' = zones)]_vars

\* C6's case: an add was refused for a name that differs from an existing
\* one only in case
C6_Witness ==
    /\ op.cmd = "addzone" /\ reply = "ERR"
    /\ \E i \in ZoneIndices :
          zones[i].name # op.name /\ strcasecmp(op.name, zones[i].name) = 0

MutationCmds == {"addzone", "setzone_all", "setzone_attr", "rmzone", "clear", "bump_version"}

ReadCmds == {"zones", "touch"}

\* the version after v: one more, and 0 in the place of (unsigned int)-1
VersionAfter(v, w) ==
    LET next == IF v.lo = VersionHalf - 1 THEN [hi |-> (v.hi + 1) % VersionHalf, lo |-> 0]
                ELSE [hi |-> v.hi, lo |-> v.lo + 1]
    IN  w = IF next = VersionError THEN [hi |-> 0, lo |-> 0] ELSE next

\* C7: every successful mutation advances the version by one, wrapping to 0
\* in the place of the all-ones value, so the version differs from the one
\* before; the read operations leave the version unchanged.
C7_VersionAdvances ==
    [][/\ (op'.cmd \in MutationCmds /\ reply' # "ERR")
              => (version' # version /\ VersionAfter(version, version'))
       /\ op'.cmd \in ReadCmds => version' = version]_vars

\* C7's case: adding a zone wrapped the version to 0
C7_Witness ==
    /\ op.cmd = "addzone" /\ reply = "OK"
    /\ version = [hi |-> 0, lo |-> 0]

\* C8: the stored version is never the all-ones value (unsigned int)-1.
C8_VersionNeverSentinel == version # VersionError

\* C8's case: the version went past the wrap and on
C8_Witness ==
    /\ version = [hi |-> 0, lo |-> 1]
    /\ steps = MaxSteps - (NearWrap + 1)

(***************************************************************************)
(* Properties of the occupancy engine.                                     *)
(***************************************************************************)
\* C9: a depth frame turns an unoccupied zone occupied only when strictly
\* more than on_delay depth frames in a row met the threshold, and turns an
\* occupied zone unoccupied only when strictly more than off_delay depth
\* frames in a row missed it, whatever setzone commands ran between the
\* frames.
C9_DebounceDelays ==
    [][op'.cmd = "update_depth" =>
          \A i \in 1..Len(zones) :
              /\ (zones[i].occupied = 0 /\ zones'[i].occupied = 1)
                    => streak'[i].on > zones[i].rising_delay
              /\ (zones[i].occupied = 1 /\ zones'[i].occupied = 0)
                    => streak'[i].off > zones[i].falling_delay]_vars

\* C10: a depth frame whose sampled pixels all read 2047 leaves oor_total at
\* (sampled pixels) * xskip * yskip and every pop at 0, and no zone whose
\* param is pop, sa, xc, yc or zc goes from unoccupied to occupied.
C10_DarkFrame ==
    [][(op'.cmd = "update_depth" /\ depthbuf' = <<>>) =>
          /\ oor_total' = 320 * 240 * xskip * yskip
          /\ \A i \in 1..Len(zones) :
                /\ zones'[i].pop = 0
                /\ (zones[i].occupied_param \in {ZONE_POP, ZONE_SA, ZONE_XC, ZONE_YC, ZONE_ZC}
                    /\ zones[i].occupied = 0)
                      => zones'[i].occupied = 0]_vars

\* C10's case: a dark frame ran on a zone of param pop whose on_level is 0
\* and whose on_delay is 0, and the zone is still unoccupied
C10_Witness ==
    /\ op.cmd = "update_depth" /\ depthbuf = <<>>
    /\ oor_total = FREENECT_FRAME_PIX
    /\ \E i \in ZoneIndices :
          /\ zones[i].occupied_param = ZONE_POP
          /\ zones[i].rising_threshold = 0 /\ zones[i].rising_delay = 0
          /\ zones[i].occupied = 0 /\ zones[i].negate = 0

RECURSIVE SumPop(_, _)
SumPop(zs, n) == IF n > Len(zs) THEN 0 ELSE zs[n].pop + SumPop(zs, n + 1)

\* C11 as claimed: after a depth pass, oor_total plus the sum of the pops of
\* all zones is at most (sampled pixels) * xskip * yskip.
C11_SamplesBounded ==
    op.cmd = "update_depth" =>
        oor_total + SumPop(zones, 1) <= 320 * 240 * xskip * yskip

\* C11 as amended: after a depth pass, oor_total plus the pop of any one
\* zone is at most (sampled pixels) * xskip * yskip; a sample inside two
\* overlapping zones counts in the pop of both.
C11_SamplesBoundedPerZone ==
    op.cmd = "update_depth" =>
        \A i \in ZoneIndices : oor_total + zones[i].pop <= 320 * 240 * xskip * yskip

\* C11's case: a depth pass counted the same samples in two zones
C11_Witness ==
    /\ op.cmd = "update_depth"
    /\ Len(zones) = 2
    /\ zones[1].pop > 0 /\ zones[2].pop > 0
    /\ oor_total + zones[1].pop = 320 * 240 * xskip * yskip

\* the axis of the centre of gravity has min < max, so zone_xc, zone_yc and
\* zone_zc do not divide by zero
CentreDefined(zone) ==
    zone.xmax # zone.xmin /\ zone.ymax # zone.ymin /\ zone.zmax # zone.zmin

\* C12: after a depth pass, xc, yc and zc of every zone are in [0, 1000]
\* when its pop > 0 and are -1 when its pop = 0.
C12_CentreInRange ==
    op.cmd = "update_depth" =>
        \A i \in ZoneIndices :
            IF zones[i].pop = 0
            THEN zone_xc(zones[i]) = -1 /\ zone_yc(zones[i]) = -1 /\ zone_zc(zones[i]) = -1
            ELSE /\ CentreDefined(zones[i])
                 /\ zone_xc(zones[i]) \in 0..1000
                 /\ zone_yc(zones[i]) \in 0..1000
                 /\ zone_zc(zones[i]) \in 0..1000

OccupiedZones == {i \in ZoneIndices : zones[i].occupied = 1}

\* C13: after a depth pass, max_zone is the index of the first occupied
\* zone with the largest surface area among the occupied zones, and -1 when
\* no zone is occupied; peak returns no name and index -1 exactly when no
\* zone is occupied.
C13_PeakIsOccupied ==
    op.cmd = "update_depth" =>
        /\ IF OccupiedZones = {}
           THEN max_zone = -1
           ELSE /\ max_zone + 1 \in OccupiedZones
                /\ \A i \in OccupiedZones :
                      /\ SurfaceArea(zones[i]) <= SurfaceArea(zones[max_zone + 1])
                      /\ i < max_zone + 1 => SurfaceArea(zones[i]) < SurfaceArea(zones[max_zone + 1])
        /\ (~peak_zone(zones, max_zone).found /\ peak_zone(zones, max_zone).index = -1)
              <=> OccupiedZones = {}

\* the largest index of the table proper whose entry does not exceed mm
LargestIndexBelow(mm) ==
    IF mm < depth_lut(0) THEN 0
    ELSE SetMax({i \in 0..PXZMAX : depth_lut(i) <= mm})

\* C14: reverse_lut(mm) is the largest index i in 0..1092 with
\* depth_lut[i] <= mm: 0 below depth_lut[0], 1092 above depth_lut[1092].
C14_ReverseLutLargest ==
    op.cmd = "reverse_lut" => result = LargestIndexBelow(arg)

\* the world ends of a zone
WorldEnds == {"xmin", "xmax", "ymin", "ymax", "zmin", "zmax"}

DepthUsedMin(w, zone) == IF w >= 0 THEN zone.zmax ELSE zone.zmin
DepthUsedMax(w, zone) == IF w >= 0 THEN zone.zmin ELSE zone.zmax

\* the pixel ends before the CLAMP lie inside the frame
Unclamped(zone, fs) ==
    \A f \in fs : recalc_screen_from_world_unclamped(zone)[f] = recalc_screen_from_world(zone)[f]

IsAck(line) == line.kind \in {"OK", "ERR"}
IsSub(line) == line.kind = "SUB"
IsDepth(line) == line.kind = "DEPTH"
IsBright(line) == line.kind = "BRIGHT"
IsVideo(line) == line.kind = "VIDEO"

\* the lines a step added to the client's output
Appended(c) == SubSeq(clients'[c].out, Len(clients[c].out) + 1, Len(clients'[c].out))

\* the step ran parse_line on a line of client c (to its end or to a trap)
Parsed(c) == clients'[c].issued = clients[c].issued + 1

\* the step ran knd_wake with a 'Z' in the pipe (to its end or to a trap)
DepthWakeup == wake_pipe'.runs = wake_pipe.runs + 1 /\ wake_pipe.Z > 0

\* the step ran knd_wake with a 'V' in the pipe, to its end
VideoWakeup == op'.cmd = "knd_wake" /\ wake_pipe.V > 0

\* C17: for each client, every command line the server processed has
\* exactly one acknowledgement (OK or ERR) in the client's output, and the
\* acknowledgements stand in the order of the commands, whatever SUB, ADD,
\* DEL, DEPTH, BRIGHT and VIDEO output and other clients' commands come
\* between.
C17_OneAckPerLine ==
    \A c \in Clients :
        LET acks == SelectSeq(clients[c].out, IsAck)
        IN  /\ Len(acks) = clients[c].issued
            /\ \A k \in 1..Len(acks) : acks[k].n = k

\* C18: a client that issues sub is sent its OK and one full SUB line per
\* zone of the catalog, ahead of any line a frame drives; on every depth
\* wakeup a subscribed client is sent a SUB line for exactly the zones whose
\* pop differs from lastpop, whose occupied differs from lastoccupied or
\* whose new_zone is set, and a client not subscribed none.
C18_SubLines ==
    [][\A c \in Clients :
          /\ Parsed(c) /\ op'.during = "sub" =>
                 Appended(c) = <<AckLine("OK", "sub", clients'[c].issued)>> \o ZoneLines("SUB", zones)
          /\ DepthWakeup =>
                 SelectSeq(Appended(c), IsSub) =
                     IF clients[c].subglobal = 1 THEN SubLines(zones, wake_pipe.runs + 1) ELSE <<>>
          /\ ~DepthWakeup /\ ~(Parsed(c) /\ op'.during = "sub") =>
                 SelectSeq(Appended(c), IsSub) = <<>>]_vars

\* C19: subdepth N sets the budget to N, getdepth sets it to 1 for a client
\* not subscribed and adds one for a client subscribed with a positive
\* budget; on every depth wakeup a client subscribed to depth is sent one
\* DEPTH message, a positive budget goes down by one and the client is
\* unsubscribed when it reaches 0, a budget <= 0 stays and the client stays
\* subscribed; no DEPTH message is sent otherwise.
C19_DepthBudget ==
    [][\A c \in Clients :
          LET cl     == clients[c]
              depths == Len(SelectSeq(Appended(c), IsDepth))
          IN  /\ Parsed(c) /\ op'.cmd = "getdepth" =>
                     IF cl.subdepth = 0 THEN clients'[c].subdepth = 1 /\ clients'[c].depth_limit = 1
                     ELSE IF cl.depth_limit > 0 THEN clients'[c].subdepth = 1 /\ clients'[c].depth_limit = cl.depth_limit + 1
                     ELSE clients'[c].subdepth = 1 /\ clients'[c].depth_limit = cl.depth_limit
              /\ Parsed(c) /\ op'.cmd = "subdepth" => clients'[c].subdepth = 1
              /\ DepthWakeup /\ cl.subdepth = 1 =>
                     /\ depths = 1
                     /\ IF cl.depth_limit > 0
                        THEN /\ clients'[c].depth_limit = cl.depth_limit - 1
                             /\ clients'[c].subdepth = IF cl.depth_limit = 1 THEN 0 ELSE 1
                        ELSE /\ clients'[c].depth_limit = cl.depth_limit
                             /\ clients'[c].subdepth = 1
              /\ ~(DepthWakeup /\ cl.subdepth = 1) => depths = 0]_vars

\* the BRIGHT lines of a client come from different runs of knd_wake only
\* with an OK of getbright between them, and so the VIDEO messages with
\* getvideo
OneServePerRequest(c, IsKind(_), cmd) ==
    LET out == clients[c].out
    IN  \A i, j \in 1..Len(out) :
            i < j /\ IsKind(out[i]) /\ IsKind(out[j]) /\ out[i].n # out[j].n =>
                \E k \in (i + 1)..(j - 1) : IsAck(out[k]) /\ out[k].cmd = cmd

\* C20: on a video wakeup a client is sent BRIGHT lines, one per zone, only
\* if its bright flag is set, and a VIDEO message only if its video flag is
\* set; only getbright sets the one and only getvideo the other; the wakeup
\* clears both, and one request never has output on two video wakeups.
C20_OneShot ==
    /\ [][\A c \in Clients :
             LET brights == SelectSeq(Appended(c), IsBright)
                 videos  == SelectSeq(Appended(c), IsVideo)
             IN  /\ brights # <<>> \/ videos # <<>> => VideoWakeup
                 /\ VideoWakeup =>
                        /\ Len(brights) = IF clients[c].subbright = 1 THEN Len(zones') ELSE 0
                        /\ Len(videos) = IF clients[c].subvideo = 1 THEN 1 ELSE 0
                        /\ clients'[c].subbright = 0
                        /\ clients'[c].subvideo = 0
                 /\ clients'[c].subbright > clients[c].subbright =>
                        Parsed(c) /\ op'.cmd = "getbright"
                 /\ clients'[c].subvideo > clients[c].subvideo =>
                        Parsed(c) /\ op'.cmd = "getvideo"]_vars
    /\ [](\A c \in Clients : /\ OneServePerRequest(c, IsBright, "getbright")
                             /\ OneServePerRequest(c, IsVideo, "getvideo"))

\* the first video wakeup served the getbright of client 1; the second,
\* asked for by client 2, sent client 1 nothing
C20_Witness ==
    /\ op.cmd = "knd_wake"
    /\ wake_pipe.runs = 2
    /\ wake_pipe.read.V > 0
    /\ \E i \in 1..Len(clients[1].out) : IsBright(clients[1].out[i]) /\ clients[1].out[i].n = 1
    /\ \A i \in 1..Len(clients[1].out) : clients[1].out[i].n # 2
    /\ \E i \in 1..Len(clients[2].out) : IsBright(clients[2].out[i]) /\ clients[2].out[i].n = 2

(***************************************************************************)
(* Properties of a connection.                                             *)
(***************************************************************************)
\* the client has sent bye and parse_line has run it
SaidBye(c) == \E i \in 1..Len(conn[c].ran) : CmdLineOf(conn[c].ran[i]).cmd = "bye"

\* shutdown_client calls shutdown(2) on the socket of client c in this step
ShutsDown(c) == conn[c].shutdown = 0 /\ conn'[c].shutdown = 1

\* C21: after bye no later line of the connection is executed, and the
\* socket is shut down only when every byte queued for the client, in its
\* evbuffer or in the output of its bufferevent, has been written.
C21_ByeDrains ==
    [][\A c \in Clients :
          /\ SaidBye(c) => conn'[c].ran = conn[c].ran
          /\ ShutsDown(c) => conn'[c].buffer = <<>> /\ conn'[c].output = <<>>]_vars

\* the part of C21 the code keeps: no line is executed after bye, and the
\* socket is shut down only when the output of the bufferevent is drained
C21_ByeDrainsOutput ==
    [][\A c \in Clients :
          /\ SaidBye(c) => conn'[c].ran = conn[c].ran
          /\ ShutsDown(c) => conn'[c].output = <<>>]_vars


\* knd_read has just left in_buffer of client c full of text without a
\* terminator
Fills(c) ==
    /\ conn'[c].in_buffer # conn[c].in_buffer
    /\ Len(conn'[c].in_buffer) = InBufferSize
    /\ \A i \in 1..InBufferSize : conn'[c].in_buffer[i] \notin Terminators

\* C22: when in_buffer fills without a CR or LF, knd_read queues the Buffer
\* overflow banner after what was queued, requests the shutdown of the client
\* and runs no command from the bytes in the buffer, then or later.
C22_Overflow ==
    [][\A c \in Clients :
          /\ Fills(c) =>
                /\ conn'[c].output = conn[c].output \o conn[c].buffer \o <<"OVERFLOW">>
                /\ conn'[c].buffer = <<>>
                /\ conn'[c].shutdown_requested = 1
                /\ conn'[c].ran = conn[c].ran
          /\ Len(conn[c].in_buffer) = InBufferSize =>
                conn'[c].ran = conn[c].ran /\ conn'[c].in_buffer = conn[c].in_buffer]_vars

\* a client filled the buffer with text that ends in "bye", the banner
\* reached the socket, the socket was shut down, and bye never ran
C22_Witness ==
    \E c \in Clients :
        /\ Len(conn[c].in_buffer) = InBufferSize
        /\ conn[c].in_buffer[InBufferSize] = "bye"
        /\ conn[c].ran = <<>>
        /\ conn[c].shutdown = 1
        /\ conn[c].wire = <<"OVERFLOW">>


(***************************************************************************)
(* Properties of the watchdog.                                             *)
(***************************************************************************)
\* watchdog_thread finishes a sampling tick in this step
TickEnds == watchdog.pc = "compare" /\ watchdog'.pc = "sleep"

\* watchdog_callback runs in this step
Called == watchdog'.calls = watchdog.calls + 1

\* C23: on every sampling tick the callback runs if and only if the time
\* from the last kick to the sampled clock is longer than the timeout, once
\* at most and never outside a tick; and while the time since the last kick
\* has never been longer than the timeout the callback has never run.
C23_CallbackIffOverrun ==
    /\ [][/\ TickEnds => (Called <=> watchdog.sampled - watchdog.heard > watchdog.limit)
          /\ watchdog'.calls # watchdog.calls => TickEnds /\ Called]_vars
    /\ [](watchdog.calls > 0 => watchdog.late)

\* the callback has run once, and in a later tick a kick came between the
\* sample of the clock and the read of last_time
C23_Witness ==
    /\ watchdog.pc = "compare"
    /\ watchdog.calls = 1
    /\ watchdog.sampled < watchdog.heard
    /\ watchdog.timeout = TimeSpec(RunTimeout)

\* C24: the first overrun sets the stop flag and sends SIGUSR2 to the main
\* thread, SIGTERM is raised only after the watchdog has sent SIGUSR2, and
\* the watchdog is kicked after every escalation.
C24_EscalationOrder ==
    [][/\ Called /\ watchdog.calls = 0 => watchdog'.usr2 = 1 /\ watchdog'.stop = 1
       /\ watchdog'.term > watchdog.term => watchdog.usr2 > 0
       /\ Called /\ ~watchdog'.exited => watchdog'.kick_at = watchdog.now]_vars

\* C25: when the pipeline stops kicking, the first overrun sends one
\* SIGUSR2 to the main thread and the second overrun ends the process, even
\* if the main thread never leaves the event loop.
C25_SecondSilenceTerminates ==
    /\ [](watchdog.calls = 1 /\ watchdog.term = 0 => watchdog.usr2 = 1)
    /\ [](watchdog.calls >= 2 => watchdog.exited)


(***************************************************************************)
(* Properties of persistence.                                              *)
(***************************************************************************)
\* C26: when a step of save_zones fails (the call returns -1), zones.knd
\* holds exactly what it held before the call.
C26_FailedSaveKeepsFile ==
    disk.pc = "done" /\ disk.ret = -1 => disk.dest = disk.before

\* the twelve fields C27 names
RoundTripFields(zone) == <<zone.name>> \o SavedFields(zone)

\* C27: after a save that succeeded, load_zones into an empty catalog gives
\* as many zones as were saved, in the same order, each with the same name,
\* box, param, levels and delays.
C27_SaveLoadRoundTrip ==
    disk.pc = "loaded" /\ disk.ret = 0 =>
        /\ ~disk.loaded.hang
        /\ Len(disk.loaded.zones) = Len(disk.saved)
        /\ \A i \in 1..Len(disk.saved) :
              RoundTripFields(disk.loaded.zones[i]) = RoundTripFields(disk.saved[i])

(***************************************************************************)
(* Properties of the depth buffer.                                         *)
(***************************************************************************)
\* a call of the sensor callback returns
CbReturns == pipeline'.returned = pipeline.returned + 1

Copied ==
    /\ pipeline'.depth_frames = pipeline.depth_frames + 1
    /\ pipeline'.posted = pipeline.posted + 1

Discarded == pipeline'.busy_count = pipeline.busy_count + 1

\* C28: every frame the sensor delivers is copied (depth_frames incremented
\* and depth_full posted) or discarded with busy_count incremented, never
\* both and never neither; a frame is discarded only when the callback has
\* waited the 1 ms timeout for the empty token; the callback never waits
\* for the token longer than that.
C28_BackPressure ==
    /\ [](pipeline.returned = pipeline.depth_frames + pipeline.busy_count
                              - (IF pipeline.cb = "unlock" THEN 1 ELSE 0))
    /\ [](pipeline.posted = pipeline.depth_frames)
    /\ [][Discarded => pipeline'.waited >= SemTimeout]_vars
    /\ [](pipeline.waited <= SemTimeout)

\* every frame is copied or discarded, never both and never neither
C28_CopiedOrDiscarded ==
    /\ pipeline.returned = pipeline.depth_frames + pipeline.busy_count
                           - (IF pipeline.cb = "unlock" THEN 1 ELSE 0)
    /\ pipeline.posted = pipeline.depth_frames

\* the callback finds depth_in_use held by the worker only when the worker
\* has posted depth_empty and has its unlock left to do
C28_WaitsOnlyForUnlock ==
    pipeline.cb = "lock" /\ pipeline.depth_in_use = "worker" => pipeline.worker = "unlock"

(***************************************************************************)
(* Properties of the locks.                                                *)
(***************************************************************************)
\* the thread is about to call pthread_mutex_lock on a lock other than l
AttemptsOther(t, l) == NextOp(t)[1] = "lock" /\ NextOp(t)[2] # l

\* C29: in every interleaving of the six threads, a thread that holds the
\* catalog lock does not attempt to acquire depth_in_use, video_in_use, the
\* watchdog lock or param_mutex.
C29_CatalogLockInnermost ==
    \A t \in ThreadNames : "zones" \in threads.run[t].held => ~AttemptsOther(t, "zones")

\* the depth worker holds depth_in_use and the catalog lock, in that order,
\* while the server waits for the catalog lock
C29_Witness ==
    /\ threads.run["depth_thread"].held = {"depth_in_use", "zones"}
    /\ NextOp("kndsrv_thread") = Lock("zones")
    /\ threads.run["save_thread"].held = {}

\* thread t emits a record of this kind in the step
Emitting(t, kind) ==
    /\ NextOp(t) = Emits(kind)
    /\ threads'.run[t].ops = Tail(threads.run[t].ops)

\* the record is read with the catalog lock held and outside every
\* occupancy pass
ReadWhole(t) == "zones" \in threads.run[t].held /\ ~threads.in_pass

\* C30: every zone record the server emits (zones reply, SUB, ADD, BRIGHT)
\* is read with the catalog lock held, and none is read while an occupancy
\* pass is under way.
C30_RecordsReadUnderLock ==
    [][\A t \in ThreadNames : \A kind \in {"zones", "SUB", "ADD", "BRIGHT"} :
          Emitting(t, kind) => ReadWhole(t)]_vars

\* the records of the zones reply, of SUB and of BRIGHT are read with the
\* catalog lock held and outside every occupancy pass
C30_IteratedRecordsUnderLock ==
    [][\A t \in ThreadNames : \A kind \in {"zones", "SUB", "BRIGHT"} :
          Emitting(t, kind) => ReadWhole(t)]_vars

(***************************************************************************)
(* Properties of the configuration writes.                                 *)
(***************************************************************************)
\* thread t stores to a zone's configuration in the step
Writing(t) ==
    /\ NextOp(t)[1] = "write"
    /\ threads'.run[t].ops = Tail(threads.run[t].ops)

\* C31: every write to a zone's configuration, the restoration of saved
\* zones at start-up included, is made by the server thread with the
\* catalog lock held, and no occupancy pass is under way during it.
C31_ConfigWritesLocked ==
    [][\A t \in ThreadNames :
          Writing(t) => /\ t = "kndsrv_thread"
                        /\ "zones" \in threads.run[t].held
                        /\ ~threads.in_pass]_vars

\* no occupancy pass is under way during a write to a zone's configuration;
\* the server thread writes with the catalog lock held, the main thread
\* writes before its first vidproc_doevents
C31_NoPassDuringWrite ==
    [][\A t \in ThreadNames :
          Writing(t) => /\ ~threads.in_pass
                        /\ t = "kndsrv_thread" => "zones" \in threads.run[t].held
                        /\ t # "kndsrv_thread" => t = "main" /\ threads.phase = "load"]_vars

(***************************************************************************)
(* Properties of the depth buffer's handoff.                               *)
(***************************************************************************)
\* the worker or the server's get_depth is reading the depth buffer
ReadingDepth == pipeline.worker = "depth_cb" \/ pipeline.server = "cb"

\* C32: before cleanup_vidproc, depth_empty and depth_full sum to at most
\* 1; the buffer is written only when the worker has processed every frame
\* copied before; the worker processes the copied frames once each, in
\* order; the worker and get_depth never read a partly written buffer.
C32_Handoff ==
    /\ pipeline.stop = 0 => pipeline.depth_empty + pipeline.depth_full <= 1
    /\ pipeline.partial => Len(pipeline.seen) = pipeline.depth_frames
    /\ \A i \in 1..Len(pipeline.seen) : pipeline.seen[i] = i
    /\ pipeline.stop = 0 /\ pipeline.depth_empty = 1 => Len(pipeline.seen) = pipeline.depth_frames
    /\ Len(pipeline.seen) \in {pipeline.depth_frames - 1, pipeline.depth_frames}
    /\ ReadingDepth => ~pipeline.partial

\* two frames were copied and processed, one was discarded in between, and
\* get_depth reads the buffer
C32_Witness ==
    /\ pipeline.seen = <<1, 2>>
    /\ pipeline.busy_count > 0
    /\ pipeline.server = "cb"
    /\ pipeline.stop = 0

(***************************************************************************)
(* Properties of the wakeup drain.                                         *)
(***************************************************************************)
\* a call of knd_wake has returned
WakeHandled == wake_pipe.pc = "dispatch" /\ wake_pipe.runs > 0

\* C33: a call of knd_wake that read a 'K' stops the event loop and does no
\* fan-out: no process_subscriptions, no touch_zonelist, no process_video.
C33_StopByteNoFanOut ==
    WakeHandled /\ wake_pipe.sawK =>
        /\ wake_pipe.st.loopexit
        /\ wake_pipe.fanout = NoFanOut

\* a call of knd_wake that read a 'K' has called event_base_loopexit, and
\* the event loop does not call knd_wake again
C33_StopByteExitsLoop ==
    /\ wake_pipe.sawK => wake_pipe.st.loopexit
    /\ [][wake_pipe.st.loopexit => ~KndWakeBegin]_vars

(***************************************************************************)
(* Properties of load_zones on arbitrary files.                            *)
(***************************************************************************)
\* the name of a well-formed line
LineName(line) == SubSeq(line, 1, FieldEnd(line, 1, 0) - 1)

\* C34: load_zones returns on every file, and every well-formed zone line
\* of the file is loaded, whatever lines that fail to parse stand before it
\* and whatever the count line says.
C34_LoadSkipsBadLines ==
    disk.pc = "loaded" =>
        /\ ~disk.loaded.hang
        /\ \A k \in 1..Len(disk.dest.lines) :
              disk.dest.lines[k] \in GoodLines =>
                  NameTaken(disk.loaded.zones, LineName(disk.dest.lines[k]))

\* a file of well-formed and empty lines is loaded whole, whatever the
\* count line says
C34_GoodFileLoads ==
    disk.pc = "loaded" /\ (\A k \in 1..Len(disk.dest.lines) : disk.dest.lines[k] \in GoodLines \cup {<<>>}) =>
        /\ ~disk.loaded.hang
        /\ \A k \in 1..Len(disk.dest.lines) :
              disk.dest.lines[k] \in GoodLines =>
                  NameTaken(disk.loaded.zones, LineName(disk.dest.lines[k]))

(***************************************************************************)
(* Properties of max_zone between depth passes.                            *)
(***************************************************************************)
\* C36: between the operations, when the catalog lock is free, max_zone is
\* -1 or the index of a zone of the list, also after rmzone and clear, so
\* peak_zone and zones_func read an entry that exists.
C36_MaxZoneInRange == max_zone = -1 \/ (0 <= max_zone /\ max_zone < Len(zones))

\* directly after a depth pass max_zone is -1 or the index of a zone
C36_InRangeAfterPass ==
    op.cmd = "update_depth" => max_zone = -1 \/ (0 <= max_zone /\ max_zone < Len(zones))

(***************************************************************************)
(* Properties of the fan-out of occupancy changes.                         *)
(***************************************************************************)
\* the last SUB line queued for a client about a zone
LastSub(out, name) ==
    LET about == SelectSeq(out, LAMBDA l : l.kind = "SUB" /\ l.zone = name)
    IN  about[Len(about)]

\* every depth wakeup has been handled in full and the pipe is empty
FanQuiet == wake_pipe.pc = "dispatch" /\ wake_pipe.Z = 0 /\ wake_pipe.runs > 0

\* C37: when every depth wakeup has been handled in full, the last SUB line
\* queued for a global subscriber about a zone carries the zone's current
\* pop and occupied.
C37_NoChangeLost ==
    FanQuiet =>
        \A d \in Clients : \A i \in 1..Len(zones) :
            clients[d].subglobal = 1 =>
                /\ LastSub(clients[d].out, zones[i].name).pop = zones[i].pop
                /\ LastSub(clients[d].out, zones[i].name).occupied = zones[i].occupied

\* what touch_zonelist leaves: with the pipe empty between two calls of
\* knd_wake, no zone counts as changed
C37_TouchedWhenQuiet ==
    FanQuiet => \A i \in 1..Len(zones) : ~Changed(zones[i])

(***************************************************************************)
(* Properties of the persistence task.                                     *)
(***************************************************************************)
\* zones.knd holds a line for every zone of the catalog, as it is now
FileHoldsCatalog ==
    /\ disk.dest.exists
    /\ disk.dest.lines = [i \in 1..Len(zones) |-> save_zone_callback(zones[i])]

\* C38: once the catalog has been changed, and while every save succeeds,
\* the file comes to hold the final catalog and keeps holding it.
C38_EventuallySaved == <>[](version = [hi |-> 0, lo |-> 0] \/ FileHoldsCatalog)

\* C38, the step it rests on: the version recorded by a save that has
\* returned 0 is a version whose zones are the ones in the file
C38_RecordedVersionWritten ==
    disk.pc = "done" /\ disk.ret = 0 /\ disk.last_version = version => FileHoldsCatalog

\* the file of a save that returned 0 holds the zones the save iterated
C38_FileHoldsIterated ==
    disk.pc = "done" /\ disk.ret = 0 =>
        disk.dest.lines = [i \in 1..Len(disk.saved) |-> save_zone_callback(disk.saved[i])]

(***************************************************************************)
(* Properties of the depth map's pruning.                                  *)
(***************************************************************************)
\* the sums of a zone when every sample of the last frame is tested
Unpruned(zone) == SweepAll([zone EXCEPT !.pop = 0, !.xsum = 0, !.ysum = 0, !.zsum = 0], depthbuf, 1)

\* C39: after a depth pass, pop, xsum, ysum and zsum of every zone are the
\* sums over all samples of the frame whose world point lies in the zone's
\* box, as if no sample had been skipped for the depth map.
C39_PruningExact ==
    op.cmd = "update_depth" =>
        \A i \in 1..Len(zones) :
            /\ zones[i].pop = Unpruned(zones[i]).pop
            /\ zones[i].xsum = Unpruned(zones[i]).xsum
            /\ zones[i].ysum = Unpruned(zones[i]).ysum
            /\ zones[i].zsum = Unpruned(zones[i]).zsum

\* the depth map skips samples and adds none: a zone's pop after a pass is
\* at most the number of samples in its box
C39_PrunedAtMost ==
    op.cmd = "update_depth" => \A i \in 1..Len(zones) : zones[i].pop <= Unpruned(zones[i]).pop

(***************************************************************************)
(* Properties of a subscriber's view of the catalog.                       *)
(***************************************************************************)
\* the names a client holds after the lines out[1 .. n]: SUB and ADD insert
\* the line's name, DEL deletes it
RECURSIVE View(_, _)
View(out, n) ==
    IF n = 0 THEN {}
    ELSE IF out[n].kind \in {"SUB", "ADD"} THEN View(out, n - 1) \cup {out[n].zone}
    ELSE IF out[n].kind = "DEL" THEN View(out, n - 1) \ {out[n].zone}
    ELSE View(out, n - 1)

\* C40: a client that has subscribed with sub holds, after the lines queued
\* for it, exactly the names of the zones in the catalog, whatever addzone,
\* rmzone and clear the clients have sent.
C40_ViewIsCatalog ==
    \A d \in Clients :
        clients[d].subglobal = 1 =>
            View(clients[d].out, Len(clients[d].out)) = {zones[i].name : i \in 1..Len(zones)}

\* a subscribed client has been sent an ADD line and then a DEL line by an
\* rmzone that was answered OK, and the catalog still holds a zone
C40_Witness ==
    \E d \in Clients :
        /\ clients[d].subglobal = 1
        /\ \E i, j \in 1..Len(clients[d].out) :
              /\ i < j
              /\ clients[d].out[i].kind = "ADD"
              /\ clients[d].out[j].kind = "DEL"
        /\ op.cmd = "rmzone" /\ reply = "OK"
        /\ Len(zones) > 0

\* main has returned from the teardown
TeardownDone == threads.main = Len(TeardownPath)

\* C35: once main has left the event loop, the teardown completes in every
\* interleaving: the server thread exits after the 'K' byte, each worker
\* exits after the stop flag and one post of its full semaphore, the
\* persistence thread exits, the watchdog thread is cancelled and joined,
\* and main returns.
C35_TeardownCompletes == <>TeardownDone

\* what holds: every teardown either completes or is ended by the exit that
\* the watchdog's SIGTERM runs
C35_CompletesOrExit == <>(TeardownDone \/ watchdog.exited)

\* what holds: a teardown that completed has seen every thread exit, the
\* workers wherever they were when the loop ended
C35_AllJoined ==
    TeardownDone =>
        /\ \A t \in {"server", "depth", "video", "save"} : threads.pc[t] = "exited"
        /\ watchdog.pc = "done"

\* what holds: until the watchdog's exit, no join waits for ever: the thread
\* main is joining exits
C35_JoinsReturn ==
    \A t \in {"server", "depth", "video", "save"} :
        (threads.main <= Len(TeardownPath) /\ Joined(MainCall) = t)
            ~> (threads.pc[t] = "exited" \/ watchdog.exited)

\* main is joining the depth worker, which was in the middle of a frame when
\* the stop flag was set and its semaphore posted
C35_Witness ==
    /\ MainCall = "join_depth"
    /\ threads.pc["depth"] = "frame"
    /\ threads.stop = 1
    /\ threads.full["depth"] = 1

\* the watchdog's exit has ended the process while main was joining a thread
C35_ExitInTeardown ==
    /\ watchdog.exited
    /\ Joined(MainCall) # ""

====
